---------------------------- MODULE Spec2Model ----------------------------
(***************************************************************************)
(* Family location tracker: the membership model (routes/family.js,        *)
(* models/Family.js, the User model), the account and settings routes      *)
(* (user routes, concatenated in routes/location.js), the socket handler   *)
(* and the Location model (both concatenated in server.js) and the         *)
(* permission helper hasDataAccessPermission (unnamed/part_001).           *)
(*                                                                         *)
(* Every REST handler and every socket handler is one action; the store    *)
(* (users, families, samples) and the socket rooms are the state.          *)
(***************************************************************************)
EXTENDS Integers, Sequences, FiniteSets, TLC

\* ------------------------------------------------------------------ bounds
NumUsers == 2
NumFamilies == 2
NumConns == 2
MaxSamples == 1
MaxPlaces == 2
NumReqs == 2
MaxWrites == 3
MaxWatches == 2
MaxUpdates == 3

Users == 1..NumUsers
Families == 1..NumFamilies
Conns == 1..NumConns
Reqs == 1..NumReqs

\* No user / no family / a closed connection.
NoUser == 0
NoFamily == 0

Roles == {"admin", "member"}

VARIABLES
    user,      \* User documents: user[u]
    family,    \* Family documents: family[f]
    conn,      \* sockets: conn[c].user (NoUser when closed), conn[c].rooms
    samples,   \* Location documents, in insertion order
    emitted,   \* what the last handler emitted to other sockets
    last,      \* the last handler that ran and its answer to the caller
    perm,      \* one evaluation of hasDataAccessPermission
    inflight,  \* family requests between their store calls, and the families' __v
    client     \* one browser client: refresh queue, tracking state, familyLocations

vars == <<user, family, conn, samples, emitted, last, perm, inflight, client>>

\* ----------------------------------------------------------------- helpers
\* Array.prototype.find on a sequence: the first index satisfying P, 0 if none.
FindIndex(seq, P(_)) ==
    IF \E i \in DOMAIN seq : P(seq[i])
    THEN CHOOSE i \in DOMAIN seq : P(seq[i]) /\ \A j \in 1..(i - 1) : ~P(seq[j])
    ELSE 0

\* Array.prototype.filter
Filter(seq, P(_)) == SelectSeq(seq, P)

Range(seq) == {seq[i] : i \in DOMAIN seq}

\* An optional field of a request: Undefined when the body leaves it out,
\* Some(x) when it carries x.
Undefined == {}
Some(x) == {x}
Optional(S) == {Undefined} \cup {Some(x) : x \in S}
ValueOf(opt) == CHOOSE x \in opt : TRUE
Given(opt, old) == IF opt = Undefined THEN old ELSE ValueOf(opt)

\* user.families.map(f => f.familyId) as a set
FamilyIdsOf(u) == {user[u].families[i].familyId : i \in DOMAIN user[u].families}

\* ------------------------------------------------------- Family model methods
NewFamilyDoc(u) ==
    [exists |-> TRUE,
     members |-> <<[userId |-> u, role |-> "admin"]>>,
     allowNewMembers |-> TRUE,
     places |-> <<>>,
     isActive |-> TRUE]

NoFamilyDoc ==
    [exists |-> FALSE, members |-> <<>>, allowNewMembers |-> TRUE,
     places |-> <<>>, isActive |-> TRUE]

isUserMember(fam, uid) == \E i \in DOMAIN fam.members : fam.members[i].userId = uid

isUserAdmin(fam, uid) ==
    LET i == FindIndex(fam.members, LAMBDA m : m.userId = uid)
    IN  i # 0 /\ fam.members[i].role = "admin"

\* addMember throws when the user is already a member; the routes call it only
\* after isUserMember returned false.
addMemberThrows(fam, uid) == isUserMember(fam, uid)

addMember(fam, uid) ==
    [fam EXCEPT !.members = Append(@, [userId |-> uid, role |-> "member"])]

removeMember(fam, uid) ==
    [fam EXCEPT !.members = Filter(@, LAMBDA m : m.userId # uid)]

updateMemberRole(fam, uid, newRole) ==
    LET i == FindIndex(fam.members, LAMBDA m : m.userId = uid)
    IN  [fam EXCEPT !.members[i].role = newRole]

adminCount(fam) == Cardinality({i \in DOMAIN fam.members : fam.members[i].role = "admin"})

\* user.families.filter(f => f.familyId !== family._id)
WithoutFamily(fams, f) == Filter(fams, LAMBDA e : e.familyId # f)

\* ------------------------------------------------------------ answers
\* What the last handler was asked and what it answered: the operation, the
\* caller, the coordinates of an ingestion request (req), the status and the
\* locations of the answer.
NoRequest == [present |-> FALSE, lat |-> 0, lon |-> 0]

Answer(op, u, c, f, t, status, locs) ==
    [op |-> op, user |-> u, conn |-> c, fam |-> f, target |-> t,
     req |-> NoRequest, status |-> status, locs |-> locs]

\* The answer to an ingestion request carrying coords.
IngestAnswer(op, u, c, coords, status) ==
    [Answer(op, u, c, NoFamily, NoUser, status, {}) EXCEPT !.req = coords]

NoAnswer == Answer("none", NoUser, 0, NoFamily, NoUser, "none", {})

\* A family or account route's answer: a status and a message. REST handlers
\* emit nothing on sockets.
Respond(op, u, f, t, status) ==
    /\ last' = Answer(op, NoUser, 0, NoFamily, NoUser, status, {})
    /\ emitted' = {}

\* authenticateToken: the token's user must exist and be active.
Authenticated(u) == user[u].isActive

\* requireFamilyAdmin / requireFamilyMember: "ok", or the status they answer.
requireFamilyAdmin(u, f) ==
    IF ~family[f].exists THEN "404"
    ELSE IF ~isUserAdmin(family[f], u) THEN "403"
    ELSE "ok"

requireFamilyMember(u, f) ==
    IF ~family[f].exists THEN "404"
    ELSE IF ~isUserMember(family[f], u) THEN "403"
    ELSE "ok"

\* ------------------------------------------------------------ requests in flight
\* A family route between two of its awaited store calls: the route, the
\* caller, the family and member of the path, the role of the body, and the
\* family document as the middleware loaded it (its members and its __v).
IdleReq ==
    [op |-> "none", pc |-> "idle", user |-> NoUser, fam |-> NoFamily,
     target |-> NoUser, role |-> "member", members |-> <<>>, ver |-> 0]

\* A socket event between two awaits of its handler: the connection it came
\* on, its arrival number on the server, its coordinates, and how far the
\* handler has got.
IdleEvent == [pc |-> "idle", conn |-> 0, seq |-> 0, coords |-> NoRequest]

\* No request and no event in flight; every family document at __v 0.
NoInflight ==
    [req |-> [r \in Reqs |-> IdleReq], version |-> [f \in Families |-> 0],
     event |-> [r \in Reqs |-> IdleEvent], arrived |-> 0]

\* The browser client (App.js, locationStore.js).  A call of apiService is
\* idle, sent, queued in failedQueue, waiting for the refresh it started
\* ("refreshing"), done or rejected; retry is originalRequest._retry.
\* watches are the watches registered with navigator.geolocation, issued the
\* number of ids watchPosition has handed out (ids are positive, watchId 0 is
\* null), received the number of member_location_update events delivered.
IdleCall == [pc |-> "idle", retry |-> FALSE]

\* The failedQueue entry of the POST /auth/refresh call itself.
RefreshCall == 0

\* The stores after construction: no session, nothing refreshing, no watch
\* registered, no family location received.
NoClient ==
    [isRefreshing |-> FALSE,
     failedQueue |-> <<>>,
     request |-> [r \in Reqs |-> IdleCall],
     refresh |-> "none",
     refreshToken |-> FALSE,
     watchId |-> 0,
     isTrackingEnabled |-> FALSE,
     watches |-> {},
     issued |-> 0,
     familyLocations |-> <<>>,
     received |-> 0]

\* ------------------------------------------------------------ Init
DefaultUser ==
    [families |-> <<>>,
     shareLocation |-> TRUE,
     shareLocationHistory |-> TRUE,
     allowEmergencyAlerts |-> TRUE,
     visibleToFamily |-> TRUE,
     lastActive |-> 0,
     isActive |-> TRUE]

ClosedConn == [user |-> NoUser, rooms |-> {}]

\* The part of a user document hasDataAccessPermission reads.
PermDoc(id, families, share, history, visible) ==
    [id |-> id, families |-> families, shareLocation |-> share,
     shareLocationHistory |-> history, visibleToFamily |-> visible]

NoPerm ==
    [requester |-> PermDoc(NoUser, <<>>, TRUE, TRUE, TRUE),
     target |-> PermDoc(NoUser, <<>>, TRUE, TRUE, TRUE),
     dataType |-> "none", evaluated |-> FALSE, result |-> FALSE]

\* The registered users with the schema's defaults, no family, no socket.
Init ==
    /\ user = [u \in Users |-> DefaultUser]
    /\ family = [f \in Families |-> NoFamilyDoc]
    /\ conn = [c \in Conns |-> ClosedConn]
    /\ samples = <<>>
    /\ emitted = {}
    /\ last = NoAnswer
    /\ perm = NoPerm
    /\ inflight = NoInflight
    /\ client = NoClient

\* ------------------------------------------------- routes/family.js
\* An inactive account's token is refused by authenticateToken (401).
Unauthorized(u) ==
    /\ ~Authenticated(u)
    /\ Respond("rest", u, NoFamily, NoUser, "401")
    /\ UNCHANGED <<user, family, conn, samples, perm, inflight, client>>

\* POST /api/family: the creator is the first member, as admin, on both sides.
CreateFamily(u) ==
    /\ Authenticated(u)
    /\ \E f \in Families :
        /\ ~family[f].exists
        /\ \A g \in Families : g < f => family[g].exists
        /\ family' = [family EXCEPT ![f] = NewFamilyDoc(u)]
        /\ user' = [user EXCEPT ![u].families = Append(@, [familyId |-> f, role |-> "admin"])]
        /\ Respond("createFamily", u, f, NoUser, "201")
    /\ UNCHANGED <<conn, samples, perm, inflight, client>>

\* POST /api/family/join: f stands for the invite code of family f.
JoinFamily(u, f) ==
    /\ Authenticated(u)
    /\ IF ~(family[f].exists /\ family[f].isActive)
       THEN Respond("join", u, f, NoUser, "404") /\ UNCHANGED <<user, family>>
       ELSE IF ~family[f].allowNewMembers
       THEN Respond("join", u, f, NoUser, "403") /\ UNCHANGED <<user, family>>
       ELSE IF isUserMember(family[f], u)
       THEN Respond("join", u, f, NoUser, "409") /\ UNCHANGED <<user, family>>
       ELSE /\ family' = [family EXCEPT ![f] = addMember(@, u)]
            /\ user' = [user EXCEPT ![u].families =
                            Append(@, [familyId |-> f, role |-> "member"])]
            /\ Respond("join", u, f, NoUser, "200")
    /\ UNCHANGED <<conn, samples, perm, inflight, client>>

\* GET /api/family/:familyId (members only): the family's details.
GetFamily(u, f) ==
    /\ Authenticated(u)
    /\ LET gate == requireFamilyMember(u, f) IN
       last' = Answer("get_family", u, 0, f, NoUser,
                      IF gate # "ok" THEN gate ELSE "200", {})
    /\ emitted' = {}
    /\ UNCHANGED <<user, family, conn, samples, perm, inflight, client>>

\* PUT /api/family/:familyId (admin only): settings.allowNewMembers.
UpdateFamily(u, f, allow) ==
    /\ Authenticated(u)
    /\ LET gate == requireFamilyAdmin(u, f) IN
       IF gate # "ok"
       THEN Respond("updateFamily", u, f, NoUser, gate) /\ UNCHANGED family
       ELSE /\ family' = [family EXCEPT ![f].allowNewMembers = allow]
            /\ Respond("updateFamily", u, f, NoUser, "200")
    /\ UNCHANGED <<user, conn, samples, perm, inflight, client>>

\* DELETE /api/family/:familyId (admin only): pulls the family from every
\* member's user record and marks the family inactive; members stay.
DeleteFamily(u, f) ==
    /\ Authenticated(u)
    /\ LET gate == requireFamilyAdmin(u, f) IN
       IF gate # "ok"
       THEN Respond("deleteFamily", u, f, NoUser, gate) /\ UNCHANGED <<user, family>>
       ELSE /\ user' = [v \in Users |->
                          IF isUserMember(family[f], v)
                          THEN [user[v] EXCEPT !.families = WithoutFamily(@, f)]
                          ELSE user[v]]
            /\ family' = [family EXCEPT ![f].isActive = FALSE]
            /\ Respond("deleteFamily", u, f, NoUser, "200")
    /\ UNCHANGED <<conn, samples, perm, inflight, client>>

\* POST /api/family/:familyId/leave
LeaveFamily(u, f) ==
    /\ Authenticated(u)
    /\ LET gate == requireFamilyMember(u, f) IN
       IF gate # "ok"
       THEN Respond("leave", u, f, NoUser, gate) /\ UNCHANGED <<user, family>>
       ELSE LET fam == family[f]
                i == FindIndex(fam.members, LAMBDA m : m.userId = u)
            IN  IF fam.members[i].role = "admin" /\ adminCount(fam) = 1
                   /\ Len(fam.members) > 1
                THEN Respond("leave", u, f, NoUser, "400") /\ UNCHANGED <<user, family>>
                ELSE LET left == removeMember(fam, u) IN
                     /\ family' = [family EXCEPT ![f] =
                                      IF Len(left.members) = 0
                                      THEN [left EXCEPT !.isActive = FALSE]
                                      ELSE left]
                     /\ user' = [user EXCEPT ![u].families = WithoutFamily(@, f)]
                     /\ Respond("leave", u, f, NoUser, "200")
    /\ UNCHANGED <<conn, samples, perm, inflight, client>>

\* PUT /api/family/:familyId/members/:memberId/role (admin only)
UpdateMemberRole(u, f, m, role) ==
    /\ Authenticated(u)
    /\ LET gate == requireFamilyAdmin(u, f) IN
       IF gate # "ok"
       THEN Respond("updateRole", u, f, m, gate) /\ UNCHANGED <<user, family>>
       ELSE IF ~isUserMember(family[f], m)
       THEN Respond("updateRole", u, f, m, "404") /\ UNCHANGED <<user, family>>
       ELSE LET k == FindIndex(user[m].families, LAMBDA e : e.familyId = f) IN
            /\ family' = [family EXCEPT ![f] = updateMemberRole(@, m, role)]
            /\ user' = IF k # 0
                       THEN [user EXCEPT ![m].families[k].role = role]
                       ELSE user
            /\ Respond("updateRole", u, f, m, "200")
    /\ UNCHANGED <<conn, samples, perm, inflight, client>>

\* Mutant of RemoveMember: the last admin is not protected.
RemoveMember_NoFloor(u, f, m) ==
    /\ Authenticated(u)
    /\ LET gate == requireFamilyAdmin(u, f) IN
       IF gate # "ok"
       THEN Respond("removeMember", u, f, m, gate) /\ UNCHANGED <<user, family>>
       ELSE IF ~isUserMember(family[f], m)
       THEN Respond("removeMember", u, f, m, "404") /\ UNCHANGED <<user, family>>
       ELSE /\ family' = [family EXCEPT ![f] = removeMember(@, m)]
            /\ user' = [user EXCEPT ![m].families = WithoutFamily(@, f)]
            /\ Respond("removeMember", u, f, m, "200")
    /\ UNCHANGED <<conn, samples, perm, inflight, client>>

\* DELETE /api/family/:familyId/members/:memberId (admin only)
RemoveMember(u, f, m) ==
    /\ Authenticated(u)
    /\ LET gate == requireFamilyAdmin(u, f) IN
       IF gate # "ok"
       THEN Respond("removeMember", u, f, m, gate) /\ UNCHANGED <<user, family>>
       ELSE IF ~isUserMember(family[f], m)
       THEN Respond("removeMember", u, f, m, "404") /\ UNCHANGED <<user, family>>
       ELSE LET fam == family[f]
                i == FindIndex(fam.members, LAMBDA e : e.userId = m)
            IN  IF fam.members[i].role = "admin" /\ adminCount(fam) = 1
                THEN Respond("removeMember", u, f, m, "400") /\ UNCHANGED <<user, family>>
                ELSE /\ family' = [family EXCEPT ![f] = removeMember(@, m)]
                     /\ user' = [user EXCEPT ![m].families = WithoutFamily(@, f)]
                     /\ Respond("removeMember", u, f, m, "200")
    /\ UNCHANGED <<conn, samples, perm, inflight, client>>

\* DELETE /api/user/account: the user is removed from every family of its
\* families list (no admin check), a family left empty is marked inactive, the
\* user is marked inactive and its samples are marked inactive. user.families
\* is not cleared.
RECURSIVE RemoveFromAll(_, _, _)
RemoveFromAll(fams, refs, u) ==
    IF refs = <<>> THEN fams
    ELSE LET f == Head(refs).familyId
             left == removeMember(fams[f], u)
             next == IF ~fams[f].exists THEN fams
                     ELSE [fams EXCEPT ![f] =
                              IF Len(left.members) = 0
                              THEN [left EXCEPT !.isActive = FALSE]
                              ELSE left]
         IN  RemoveFromAll(next, Tail(refs), u)

DeleteAccount(u, passwordOk) ==
    /\ Authenticated(u)
    /\ IF ~passwordOk
       THEN Respond("deleteAccount", u, NoFamily, NoUser, "400")
            /\ UNCHANGED <<user, family, samples>>
       ELSE /\ family' = RemoveFromAll(family, user[u].families, u)
            /\ user' = [user EXCEPT ![u].isActive = FALSE]
            /\ samples' = [i \in DOMAIN samples |->
                             IF samples[i].userId = u
                             THEN [samples[i] EXCEPT !.isActive = FALSE]
                             ELSE samples[i]]
            /\ Respond("deleteAccount", u, NoFamily, NoUser, "200")
    /\ UNCHANGED <<conn, perm, inflight, client>>

\* ------------------------------------------------- routes/family.js, store call by store call
\* The membership routes await several store calls; between two of them
\* another request can run. A request loads the family (middleware or
\* findOne) and checks it, then saves the family, then loads and saves the
\* user. Mongoose saves the changed paths only: push is sent as $push
\* without a version condition, an assigned array as $set of the array under
\* the condition that __v is the loaded one, a changed field of an array
\* element as a positional $set under the same condition; $push and the
\* array $set increment __v.

\* What the checks of each route answer on the loaded family: "ok", or the
\* status of the early return.
JoinGate(u, f) ==
    IF ~(family[f].exists /\ family[f].isActive) THEN "404"
    ELSE IF ~family[f].allowNewMembers THEN "403"
    ELSE IF isUserMember(family[f], u) THEN "409"
    ELSE "ok"

LeaveGate(u, f) ==
    IF requireFamilyMember(u, f) # "ok" THEN requireFamilyMember(u, f)
    ELSE LET fam == family[f]
             i == FindIndex(fam.members, LAMBDA m : m.userId = u)
         IN  IF fam.members[i].role = "admin" /\ adminCount(fam) = 1 /\ Len(fam.members) > 1
             THEN "400" ELSE "ok"

RemoveGate(u, f, m) ==
    IF requireFamilyAdmin(u, f) # "ok" THEN requireFamilyAdmin(u, f)
    ELSE IF ~isUserMember(family[f], m) THEN "404"
    ELSE LET fam == family[f]
             i == FindIndex(fam.members, LAMBDA e : e.userId = m)
         IN  IF fam.members[i].role = "admin" /\ adminCount(fam) = 1
             THEN "400" ELSE "ok"

RoleGate(u, f, m) ==
    IF requireFamilyAdmin(u, f) # "ok" THEN requireFamilyAdmin(u, f)
    ELSE IF ~isUserMember(family[f], m) THEN "404"
    ELSE "ok"

\* The first part of a route: the family is loaded and checked. A failed
\* check answers at once; otherwise the request holds the loaded document.
\* Requests are taken while the family has been saved fewer than MaxWrites
\* times.
Load(r, op, u, f, m, role, gate) ==
    /\ inflight.req[r].pc = "idle"
    /\ inflight.version[f] < MaxWrites
    /\ Authenticated(u)
    /\ IF gate # "ok"
       THEN Respond(op, u, f, m, gate) /\ UNCHANGED inflight
       ELSE /\ inflight' = [inflight EXCEPT !.req[r] =
                               [op |-> op, pc |-> "loaded", user |-> u, fam |-> f,
                                target |-> m, role |-> role,
                                members |-> family[f].members,
                                ver |-> inflight.version[f]]]
            /\ UNCHANGED <<last, emitted>>
    /\ UNCHANGED <<user, family, conn, samples, perm, client>>

BeginJoin(r, u, f) == Load(r, "join", u, f, u, "member", JoinGate(u, f))
BeginLeave(r, u, f) == Load(r, "leave", u, f, u, "member", LeaveGate(u, f))
BeginRemove(r, u, f, m) == Load(r, "removeMember", u, f, m, "member", RemoveGate(u, f, m))
BeginRole(r, u, f, m, role) == Load(r, "updateRole", u, f, m, role, RoleGate(u, f, m))

\* The request is over: its answer, and nothing in flight for r.
Finish(r, status) ==
    /\ last' = Answer(inflight.req[r].op, NoUser, 0, NoFamily, NoUser, status, {})
    /\ emitted' = {}

\* The second part: family.addMember / removeMember / updateMemberRole save
\* the family. A save whose version condition fails rejects (VersionError)
\* and the route's catch answers 500.
FamilyWrite(r) ==
    LET q == inflight.req[r]
        f == q.fam
        stale == inflight.version[f] # q.ver
        i == FindIndex(q.members, LAMBDA e : e.userId = q.target)
    IN  /\ q.pc = "loaded"
        /\ CASE q.op = "join" ->
                  /\ family' = [family EXCEPT ![f].members =
                                   Append(@, [userId |-> q.user, role |-> "member"])]
                  /\ inflight' = [inflight EXCEPT !.req[r].pc = "familySaved",
                                                  !.version[f] = @ + 1]
                  /\ UNCHANGED <<last, emitted>>
             [] q.op \in {"leave", "removeMember"} ->
                  IF stale
                  THEN /\ Finish(r, "500")
                       /\ inflight' = [inflight EXCEPT !.req[r] = IdleReq]
                       /\ UNCHANGED family
                  ELSE LET left == Filter(q.members, LAMBDA e : e.userId # q.target) IN
                       /\ family' = [family EXCEPT ![f].members = left]
                       /\ inflight' = [inflight EXCEPT !.req[r].pc = "familySaved",
                                                       !.req[r].members = left,
                                                       !.version[f] = @ + 1]
                       /\ UNCHANGED <<last, emitted>>
             [] q.op = "updateRole" ->
                  IF stale
                  THEN /\ Finish(r, "500")
                       /\ inflight' = [inflight EXCEPT !.req[r] = IdleReq]
                       /\ UNCHANGED family
                  ELSE /\ family' = [family EXCEPT ![f].members[i].role = q.role]
                       /\ inflight' = [inflight EXCEPT !.req[r].pc = "familySaved"]
                       /\ UNCHANGED <<last, emitted>>
        /\ UNCHANGED <<user, conn, samples, perm, client>>

\* The third part: the user is loaded, changed and saved, and the route
\* answers. ok is whether the user's load and save succeed; when one
\* rejects, the catch answers 500 and the saved family stays as it is.
UserWrite(r, ok) ==
    LET q == inflight.req[r]
        f == q.fam
        k == FindIndex(user[q.target].families, LAMBDA e : e.familyId = f)
    IN  /\ q.pc = "familySaved"
        /\ inflight' = [inflight EXCEPT !.req[r] = IdleReq]
        /\ IF ~ok
           THEN Finish(r, "500") /\ UNCHANGED <<user, family>>
           ELSE /\ Finish(r, "200")
                /\ CASE q.op = "join" ->
                          /\ user' = [user EXCEPT ![q.user].families =
                                         Append(@, [familyId |-> f, role |-> "member"])]
                          /\ UNCHANGED family
                     [] q.op = "leave" ->
                          /\ user' = [user EXCEPT ![q.target].families = WithoutFamily(@, f)]
                          /\ family' = IF Len(q.members) = 0
                                       THEN [family EXCEPT ![f].isActive = FALSE]
                                       ELSE family
                     [] q.op = "removeMember" ->
                          /\ user' = [user EXCEPT ![q.target].families = WithoutFamily(@, f)]
                          /\ UNCHANGED family
                     [] q.op = "updateRole" ->
                          /\ user' = IF k # 0
                                     THEN [user EXCEPT ![q.target].families[k].role = q.role]
                                     ELSE user
                          /\ UNCHANGED family
        /\ UNCHANGED <<conn, samples, perm, client>>

NextMembership ==
    \/ \E u \in Users : Unauthorized(u)
    \/ \E u \in Users : CreateFamily(u)
    \/ \E u \in Users, f \in Families : JoinFamily(u, f)
    \/ \E u \in Users, f \in Families, allow \in BOOLEAN : UpdateFamily(u, f, allow)
    \/ \E u \in Users, f \in Families : DeleteFamily(u, f)
    \/ \E u \in Users, f \in Families : LeaveFamily(u, f)
    \/ \E u \in Users, f \in Families, m \in Users, role \in Roles :
          UpdateMemberRole(u, f, m, role)
    \/ \E u \in Users, f \in Families, m \in Users : RemoveMember(u, f, m)
    \/ \E u \in Users, pw \in BOOLEAN : DeleteAccount(u, pw)

SpecMembership == Init /\ [][NextMembership]_vars

\* The membership methods of the Family model, called on a family document
\* as any caller may (the routes, the account deletion): the outcome is the
\* error the method throws, or "saved" when it reaches this.save().
AddMemberCall(f, m) ==
    /\ family[f].exists
    /\ IF addMemberThrows(family[f], m)
       THEN Respond("addMember", NoUser, f, m, "AlreadyMember") /\ UNCHANGED family
       ELSE /\ family' = [family EXCEPT ![f] = addMember(@, m)]
            /\ Respond("addMember", NoUser, f, m, "saved")
    /\ UNCHANGED <<user, conn, samples, perm, inflight, client>>

\* removeMember has no membership check: the filtered array is assigned and
\* saved whether or not an element was taken out.
RemoveMemberCall(f, m) ==
    /\ family[f].exists
    /\ family' = [family EXCEPT ![f] = removeMember(@, m)]
    /\ Respond("removeMember", NoUser, f, m, "saved")
    /\ UNCHANGED <<user, conn, samples, perm, inflight, client>>

UpdateMemberRoleCall(f, m, newRole) ==
    /\ family[f].exists
    /\ IF ~isUserMember(family[f], m)
       THEN Respond("updateMemberRole", NoUser, f, m, "NotAMember") /\ UNCHANGED family
       ELSE /\ family' = [family EXCEPT ![f] = updateMemberRole(@, m, newRole)]
            /\ Respond("updateMemberRole", NoUser, f, m, "saved")
    /\ UNCHANGED <<user, conn, samples, perm, inflight, client>>

NextMutations ==
    \/ \E u \in Users : CreateFamily(u)
    \/ \E f \in Families, m \in Users : AddMemberCall(f, m)
    \/ \E f \in Families, m \in Users : RemoveMemberCall(f, m)
    \/ \E f \in Families, m \in Users, newRole \in Roles : UpdateMemberRoleCall(f, m, newRole)

SpecMutations == Init /\ [][NextMutations]_vars

\* ------------------------------------------------- Location model (server.js)
\* Coordinates are in hundredths of a degree. Timestamps count ingestions:
\* the server's clock reads Now at the next ingestion, TsOld is a client
\* timestamp earlier than any of them.
NoCoords == [present |-> FALSE, lat |-> 0, lon |-> 0]
Point(lat, lon) == [present |-> TRUE, lat |-> lat, lon |-> lon]

TsAbsent == -1
TsUnparseable == -2
TsOld == 0
Now == Len(samples) + 1

NoPlace == [family |-> NoFamily, index |-> 0]

\* Mutant of LatInRange: no bound on the latitude.
LatInRange_Unbounded(lat) == TRUE

\* locationSchema.coordinates: min / max validators
LatInRange(lat) == lat >= -9000 /\ lat <= 9000
LonInRange(lon) == lon >= -18000 /\ lon <= 18000

\* distanceTo: the Haversine distance on a sphere of radius 6,371,000 m,
\* rounded to the metre, tabulated for the points of the model.
GeoPoints == {<<0, 0>>, <<1, 0>>, <<0, 20>>, <<10, 0>>, <<10, 20>>}

Haversine(a, b) ==
    CASE a = b -> 0
      [] {a, b} = {<<0, 0>>, <<1, 0>>} -> 1112
      [] {a, b} = {<<0, 0>>, <<0, 20>>} -> 22239
      [] {a, b} = {<<0, 0>>, <<10, 0>>} -> 11119
      [] {a, b} = {<<0, 0>>, <<10, 20>>} -> 24864
      [] {a, b} = {<<1, 0>>, <<0, 20>>} -> 22267
      [] {a, b} = {<<1, 0>>, <<10, 0>>} -> 10008
      [] {a, b} = {<<1, 0>>, <<10, 20>>} -> 24387
      [] {a, b} = {<<0, 20>>, <<10, 0>>} -> 24864
      [] {a, b} = {<<0, 20>>, <<10, 20>>} -> 11119
      [] {a, b} = {<<10, 0>>, <<10, 20>>} -> 22239

distanceTo(loc, other) == Haversine(<<loc.lat, loc.lon>>, <<other.lat, other.lon>>)

isWithinPlace(loc, place) == distanceTo(loc, place) <= place.radius

\* Mutant of NewSample: the families list is not copied at save.
NewSample_NoSnapshot(u, coords, ts) ==
    [userId |-> u, lat |-> coords.lat, lon |-> coords.lon, ts |-> ts,
     familyIds |-> {}, place |-> [family |-> NoFamily, index |-> 0], isActive |-> TRUE]

\* pre('save'): familyIds is copied from the owner's families list.
NewSample(u, coords, ts) ==
    [userId |-> u, lat |-> coords.lat, lon |-> coords.lon, ts |-> ts,
     familyIds |-> FamilyIdsOf(u), place |-> NoPlace, isActive |-> TRUE]

\* Schema validation at save: coordinates required and in range, the
\* timestamp a valid date (an Invalid Date fails the cast).
SaveThrows(coords, ts) ==
    \/ ~coords.present
    \/ ~LatInRange(coords.lat)
    \/ ~LonInRange(coords.lon)
    \/ ts = TsUnparseable

\* getLatestForUser / getLatestForUsers: the active sample with the greatest
\* timestamp of each user (as an index into samples).
LatestOf(u) ==
    {i \in DOMAIN samples :
        /\ samples[i].userId = u /\ samples[i].isActive
        /\ \A j \in DOMAIN samples :
              (samples[j].userId = u /\ samples[j].isActive) => samples[j].ts <= samples[i].ts}

\* One answer of getLatestForUsers: one latest sample for every user of
\* userIds that has an active sample.
LatestForUsers(userIds) ==
    LET have == {u \in userIds : LatestOf(u) # {}}
    IN  {{[userId |-> u, sample |-> pick[u]] : u \in have} :
            pick \in [have -> DOMAIN samples] \cap
                     {p \in [have -> DOMAIN samples] : \A u \in have : p[u] \in LatestOf(u)}}

\* ------------------------------------------------- geofence (routes/location.js, server.js)
\* POST /update's tagging loop: for every active family of the user, in the
\* store's order, the first place of the family that contains the sample is
\* written to location.place; `break` leaves the inner loop only.
FirstPlaceIn(fam, loc) == FindIndex(fam.places, LAMBDA p : isWithinPlace(loc, p))

RECURSIVE TagPlace(_, _, _, _)
TagPlace(u, loc, f, tag) ==
    IF f > NumFamilies THEN tag
    ELSE LET fam == family[f]
             hit == IF fam.exists /\ fam.isActive /\ isUserMember(fam, u)
                    THEN FirstPlaceIn(fam, loc) ELSE 0
         IN  TagPlace(u, loc, f + 1,
                      IF hit # 0 THEN [family |-> f, index |-> hit] ELSE tag)

\* Mutant of PlaceAlertRecipients: the owner is not taken out.
PlaceAlertRecipients_WithOwner(fam, place, owner) ==
    IF place.membersToNotify # {}
    THEN place.membersToNotify
    ELSE {fam.members[i].userId : i \in DOMAIN fam.members}

\* checkPlaceAlerts: for every family that lists the user as a member (active
\* or not) and every place containing the sample with arrivalAlerts on, a
\* place_alert to the personal room of every member to notify but the owner.
PlaceAlertRecipients(fam, place, owner) ==
    (IF place.membersToNotify # {}
     THEN place.membersToNotify
     ELSE {fam.members[i].userId : i \in DOMAIN fam.members}) \ {owner}

\* Mutant of checkPlaceAlerts: the alert goes to the family's room instead of
\* the personal rooms.
checkPlaceAlerts_ToFamilyRoom(loc, owner) ==
    {[event |-> "place_alert", type |-> "place_arrival", about |-> owner, to |-> c] :
        c \in {c \in Conns :
                 \E f \in Families : \E k \in DOMAIN family[f].places :
                    /\ family[f].exists
                    /\ isWithinPlace(loc, family[f].places[k])
                    /\ family[f].places[k].arrivalAlerts
                    /\ conn[c].user # NoUser
                    /\ f \in conn[c].rooms}}

checkPlaceAlerts(loc, owner) ==
    {[event |-> "place_alert", type |-> "place_arrival", about |-> owner, to |-> c] :
        c \in {c \in Conns :
                 \E f \in Families : \E k \in DOMAIN family[f].places :
                    /\ family[f].exists
                    /\ isUserMember(family[f], owner)
                    /\ isWithinPlace(loc, family[f].places[k])
                    /\ family[f].places[k].arrivalAlerts
                    /\ conn[c].user \in
                          PlaceAlertRecipients(family[f], family[f].places[k], owner)}}

\* A place of the family schema: coordinates, radius in metres and the
\* notifications settings.
Place(lat, lon, radius, arrivalAlerts, membersToNotify) ==
    [lat |-> lat, lon |-> lon, radius |-> radius,
     arrivalAlerts |-> arrivalAlerts, membersToNotify |-> membersToNotify]

\* Family.addPlace (no route of the repository calls it).
AddPlace(f, place) ==
    /\ family[f].exists
    /\ Len(family[f].places) < MaxPlaces
    /\ family' = [family EXCEPT ![f].places = Append(@, place)]
    /\ last' = NoAnswer
    /\ emitted' = {}
    /\ UNCHANGED <<user, conn, samples, perm, inflight, client>>

\* ------------------------------------------------- socket handler (server.js)
\* Mutant of RoomAudience: the sending socket is not left out.
RoomAudience_WithSender(c, ids) ==
    {d \in Conns : conn[d].user # NoUser /\ conn[d].rooms \cap ids # {}}

\* socket.to(`family_<id>`).emit(...) for every id of ids: every open socket
\* in one of the rooms, but the sending socket.
RoomAudience(c, ids) ==
    {d \in Conns : d # c /\ conn[d].user # NoUser /\ conn[d].rooms \cap ids # {}}

\* One record per delivery: the event, the payload's type, the user it is
\* about and the socket it reaches.
Broadcast(event, type, c, u) ==
    {[event |-> event, type |-> type, about |-> u, to |-> d] :
        d \in RoomAudience(c, FamilyIdsOf(u))}

\* The answer on the socket that sent the event.
Reply(op, c, status, locs) ==
    last' = Answer(op, NoUser, c, NoFamily, NoUser, status, locs)

\* connection: authenticateSocket refuses an inactive user; the socket joins
\* one room per family of the user's families list and user_status_change
\* (user_online) is broadcast to those rooms. The socket itself gets no answer.
Connect(c, u) ==
    /\ conn[c].user = NoUser
    /\ user[u].isActive
    /\ conn' = [conn EXCEPT ![c] = [user |-> u, rooms |-> FamilyIdsOf(u)]]
    /\ emitted' = Broadcast("user_status_change", "user_online", c, u)
    /\ Reply("connect", c, "none", {})
    /\ UNCHANGED <<user, family, samples, perm, inflight, client>>

\* Mutant of Disconnect: lastActive is not written.
Disconnect_NoStamp(c) ==
    /\ conn[c].user # NoUser
    /\ conn' = [conn EXCEPT ![c] = ClosedConn]
    /\ emitted' = Broadcast("user_status_change", "user_offline", c, conn[c].user)
    /\ Reply("disconnect", c, "none", {})
    /\ UNCHANGED <<user, family, samples, perm, inflight, client>>

\* disconnect: deviceInfo.lastActive is set to the server's clock, then
\* user_status_change (user_offline) goes to the rooms of the user's families
\* list.
Disconnect(c) ==
    /\ conn[c].user # NoUser
    /\ user' = [user EXCEPT ![conn[c].user].lastActive = Now]
    /\ conn' = [conn EXCEPT ![c] = ClosedConn]
    /\ emitted' = Broadcast("user_status_change", "user_offline", c, conn[c].user)
    /\ Reply("disconnect", c, "none", {})
    /\ UNCHANGED <<family, samples, perm, inflight, client>>

\* location_update
SocketLocationUpdate(c, coords, ts) ==
    /\ conn[c].user # NoUser
    /\ Len(samples) < MaxSamples
    /\ LET u == conn[c].user
           \* new Date(x) || new Date(): a Date object is always truthy, so an
           \* absent or unparseable timestamp stays an Invalid Date.
           when == IF ts \in {TsAbsent, TsUnparseable} THEN TsUnparseable ELSE ts
       IN  IF ~coords.present \/ coords.lat = 0 \/ coords.lon = 0
           THEN /\ last' = IngestAnswer("location_update", NoUser, c, coords, "error_invalid")
                /\ emitted' = {}
                /\ UNCHANGED samples
           ELSE IF SaveThrows(coords, when)
           THEN /\ last' = IngestAnswer("location_update", NoUser, c, coords, "error_failed")
                /\ emitted' = {}
                /\ UNCHANGED samples
           ELSE LET loc == NewSample(u, coords, when) IN
                /\ samples' = Append(samples, loc)
                /\ emitted' = Broadcast("member_location_update", "location", c, u)
                                 \cup checkPlaceAlerts(loc, u)
                /\ last' = IngestAnswer("location_update", NoUser, c, coords, "success")
    /\ UNCHANGED <<user, family, conn, perm, inflight, client>>

\* The store calls of the location_update handler that can reject: the
\* write of locationRecord.save(), the User.findById after it, and the
\* Family.find inside checkPlaceAlerts.
StoreFaults == {"save", "lookup", "alerts"}

\* location_update when the store call named by fault rejects. A rejected
\* save or lookup lands in the handler's catch, which emits `error`; a
\* rejected Family.find is caught inside checkPlaceAlerts and the handler goes
\* on to the confirmation.
SocketLocationUpdateFault(c, coords, ts, fault) ==
    /\ conn[c].user # NoUser
    /\ Len(samples) < MaxSamples
    /\ LET u == conn[c].user
           when == IF ts \in {TsAbsent, TsUnparseable} THEN TsUnparseable ELSE ts
       IN  IF ~coords.present \/ coords.lat = 0 \/ coords.lon = 0
           THEN /\ last' = IngestAnswer("location_update", NoUser, c, coords, "error_invalid")
                /\ emitted' = {}
                /\ UNCHANGED samples
           ELSE IF SaveThrows(coords, when) \/ fault = "save"
           THEN /\ last' = IngestAnswer("location_update", NoUser, c, coords, "error_failed")
                /\ emitted' = {}
                /\ UNCHANGED samples
           ELSE LET loc == NewSample(u, coords, when) IN
                /\ samples' = Append(samples, loc)
                /\ IF fault = "lookup"
                   THEN /\ emitted' = {}
                        /\ last' = IngestAnswer("location_update", NoUser, c, coords,
                                                "error_failed")
                   ELSE /\ emitted' = Broadcast("member_location_update", "location", c, u)
                        /\ last' = IngestAnswer("location_update", NoUser, c, coords,
                                                "success")
    /\ UNCHANGED <<user, family, conn, perm, inflight, client>>

\* The emits of checkPlaceAlerts, one per family, place and member to notify:
\* families in the store's order, places in the order of family.places,
\* members in the order of the array (membersToNotify, else family.members).
AlertSteps(loc, owner) ==
    {[family |-> f, place |-> k, to |-> m] :
        f \in {f \in Families : family[f].exists /\ isUserMember(family[f], owner)},
        k \in 1..MaxPlaces, m \in Users} \cap
    {s \in [family : Families, place : 1..MaxPlaces, to : Users] :
        /\ s.place \in DOMAIN family[s.family].places
        /\ isWithinPlace(loc, family[s.family].places[s.place])
        /\ family[s.family].places[s.place].arrivalAlerts
        /\ s.to \in PlaceAlertRecipients(family[s.family],
                                         family[s.family].places[s.place], owner)}

\* The position of a member in the array forEach walks.
RecipientRank(fam, place, m) ==
    IF place.membersToNotify # {} THEN m
    ELSE FindIndex(fam.members, LAMBDA x : x.userId = m)

\* s is emitted before t by the nested loops.
StepBefore(s, t) ==
    \/ s.family < t.family
    \/ s.family = t.family /\ s.place < t.place
    \/ /\ s.family = t.family /\ s.place = t.place
       /\ RecipientRank(family[s.family], family[s.family].places[s.place], s.to)
            < RecipientRank(family[t.family], family[t.family].places[t.place], t.to)

\* checkPlaceAlerts when the emit of step failing throws: one try/catch
\* encloses both loops and the forEach, so the emits before the failing one
\* are out and every later one is skipped.
checkPlaceAlertsUntil(loc, owner, failing) ==
    {[event |-> "place_alert", type |-> "place_arrival", about |-> owner, to |-> c] :
        c \in {c \in Conns :
                 \E s \in AlertSteps(loc, owner) :
                    StepBefore(s, failing) /\ conn[c].user = s.to}}

\* location_update with a sample that is saved and broadcast and an emit of
\* checkPlaceAlerts that throws; the catch of checkPlaceAlerts logs it and
\* the handler goes on to the confirmation.
SocketLocationUpdateAlertFault(c, coords, failing) ==
    /\ conn[c].user # NoUser
    /\ Len(samples) < MaxSamples
    /\ coords.present /\ coords.lat # 0 /\ coords.lon # 0
    /\ ~SaveThrows(coords, TsOld)
    /\ LET u == conn[c].user
           loc == NewSample(u, coords, TsOld)
       IN  /\ failing \in AlertSteps(loc, u)
           /\ samples' = Append(samples, loc)
           /\ emitted' = Broadcast("member_location_update", "location", c, u)
                            \cup checkPlaceAlertsUntil(loc, u, failing)
           /\ last' = IngestAnswer("location_update", NoUser, c, coords, "success")
    /\ UNCHANGED <<user, family, conn, perm, inflight, client>>

\* location_update, await by await. socket.on registers an async listener:
\* the server calls it for every packet as it arrives and does not wait for
\* the promise of the previous call, so a second event of a connection starts
\* while the first is suspended in a store call, and the store answers the
\* calls of different handlers in any order. The k-th event to arrive carries
\* the client timestamp k. Each slot of Reqs handles one event.
ReceiveLocationUpdate(r, c, coords) ==
    /\ conn[c].user # NoUser
    /\ inflight.event[r].pc = "idle"
    /\ IF ~coords.present \/ coords.lat = 0 \/ coords.lon = 0
       THEN /\ last' = IngestAnswer("location_update", NoUser, c, coords, "error_invalid")
            /\ emitted' = {}
            /\ UNCHANGED inflight
       ELSE /\ inflight' = [inflight EXCEPT
                               !.event[r] = [pc |-> "saving", conn |-> c,
                                             seq |-> inflight.arrived + 1,
                                             coords |-> coords],
                               !.arrived = @ + 1]
            /\ UNCHANGED <<last, emitted>>
    /\ UNCHANGED <<user, family, conn, samples, perm, client>>

\* await locationRecord.save() resolves or rejects.
LocationSaved(r) ==
    LET e == inflight.event[r] IN
    /\ e.pc = "saving"
    /\ conn[e.conn].user # NoUser
    /\ IF SaveThrows(e.coords, e.seq)
       THEN /\ last' = IngestAnswer("location_update", NoUser, e.conn, e.coords,
                                    "error_failed")
            /\ emitted' = {}
            /\ inflight' = [inflight EXCEPT !.event[r].pc = "done"]
            /\ UNCHANGED samples
       ELSE /\ samples' = Append(samples, NewSample(conn[e.conn].user, e.coords, e.seq))
            /\ inflight' = [inflight EXCEPT !.event[r].pc = "saved"]
            /\ UNCHANGED <<last, emitted>>
    /\ UNCHANGED <<user, family, conn, perm, client>>

\* await User.findById resolves: the broadcast, the place alerts and the
\* confirmation to the sender.
LocationBroadcast(r) ==
    LET e == inflight.event[r]
        u == conn[e.conn].user
        loc == NewSample(u, e.coords, e.seq)
    IN  /\ e.pc = "saved"
        /\ u # NoUser
        /\ emitted' = Broadcast("member_location_update", "location", e.conn, u)
                         \cup checkPlaceAlerts(loc, u)
        /\ last' = IngestAnswer("location_update", NoUser, e.conn, e.coords, "success")
        /\ inflight' = [inflight EXCEPT !.event[r].pc = "done"]
        /\ UNCHANGED <<user, family, conn, samples, perm, client>>

\* emergency_alert
EmergencyAlert(c) ==
    /\ conn[c].user # NoUser
    /\ emitted' = Broadcast("emergency_alert", "emergency", c, conn[c].user)
    /\ Reply("emergency_alert", c, "emergency_alert_sent", {})
    /\ UNCHANGED <<user, family, conn, samples, perm, inflight, client>>

\* battery_alert: `if (batteryData.level > 20) return`. A payload without a
\* level compares undefined > 20, which is false, and is broadcast.
BatteryAlert(c, level) ==
    /\ conn[c].user # NoUser
    /\ emitted' = IF level # Undefined /\ ValueOf(level) > 20 THEN {}
                  ELSE Broadcast("battery_alert", "battery_low", c, conn[c].user)
    /\ Reply("battery_alert", c, "none", {})
    /\ UNCHANGED <<user, family, conn, samples, perm, inflight, client>>

\* Mutant of JoinFamilyRoom: the membership is not checked.
JoinFamilyRoom_Unchecked(c, f) ==
    /\ conn[c].user # NoUser
    /\ conn' = [conn EXCEPT ![c].rooms = @ \cup {f}]
    /\ Reply("join_family", c, "joined_family", {})
    /\ emitted' = {}
    /\ UNCHANGED <<user, family, samples, perm, inflight, client>>

\* join_family
JoinFamilyRoom(c, f) ==
    /\ conn[c].user # NoUser
    /\ IF ~family[f].exists \/ ~isUserMember(family[f], conn[c].user)
       THEN Reply("join_family", c, "error", {}) /\ UNCHANGED conn
       ELSE /\ conn' = [conn EXCEPT ![c].rooms = @ \cup {f}]
            /\ Reply("join_family", c, "joined_family", {})
    /\ emitted' = {}
    /\ UNCHANGED <<user, family, samples, perm, inflight, client>>

\* leave_family
LeaveFamilyRoom(c, f) ==
    /\ conn[c].user # NoUser
    /\ conn' = [conn EXCEPT ![c].rooms = @ \ {f}]
    /\ Reply("leave_family", c, "left_family", {})
    /\ emitted' = {}
    /\ UNCHANGED <<user, family, samples, perm, inflight, client>>

\* The members whose latest locations are looked up: those with
\* locationSettings.shareLocation.
SharingMembers(fam) ==
    {fam.members[i].userId : i \in {j \in DOMAIN fam.members :
                                       user[fam.members[j].userId].shareLocation}}

\* Mutant of GetFamilyLocations: a granted request also subscribes the socket
\* to the family's room.
GetFamilyLocations_Subscribing(c, f) ==
    /\ conn[c].user # NoUser
    /\ \E idMatches \in BOOLEAN :
        IF ~family[f].exists \/ ~(idMatches /\ isUserMember(family[f], conn[c].user))
        THEN /\ last' = Answer("get_family_locations", conn[c].user, c, f, NoUser, "error", {})
             /\ UNCHANGED conn
        ELSE /\ \E locs \in LatestForUsers(SharingMembers(family[f])) :
                   last' = Answer("get_family_locations", conn[c].user, c, f, NoUser,
                                  "family_locations", locs)
             /\ conn' = [conn EXCEPT ![c].rooms = @ \cup {f}]
    /\ emitted' = {}
    /\ UNCHANGED <<user, family, samples, perm, inflight, client>>

\* get_family_locations. The handler calls isUserMember on a family whose
\* members.userId is populated: member.userId.toString() is then the string
\* form of a user document, which the source does not fix; idMatches is
\* whether it equals the caller's id for the caller's own entry.
GetFamilyLocations(c, f) ==
    /\ conn[c].user # NoUser
    /\ \E idMatches \in BOOLEAN :
        IF ~family[f].exists \/ ~(idMatches /\ isUserMember(family[f], conn[c].user))
        THEN last' = Answer("get_family_locations", conn[c].user, c, f, NoUser, "error", {})
        ELSE \E locs \in LatestForUsers(SharingMembers(family[f])) :
                last' = Answer("get_family_locations", conn[c].user, c, f, NoUser,
                               "family_locations", locs)
    /\ emitted' = {}
    /\ UNCHANGED <<user, family, conn, samples, perm, inflight, client>>

\* GET /api/family/:familyId/locations
RestFamilyLocations(u, f) ==
    /\ Authenticated(u)
    /\ LET gate == requireFamilyMember(u, f) IN
       IF gate # "ok"
       THEN last' = Answer("rest_family_locations", u, 0, f, NoUser, gate, {})
       ELSE \E locs \in LatestForUsers(SharingMembers(family[f])) :
               last' = Answer("rest_family_locations", u, 0, f, NoUser, "200", locs)
    /\ emitted' = {}
    /\ UNCHANGED <<user, family, conn, samples, perm, inflight, client>>

\* ------------------------------------------------- user routes (routes/location.js)
\* PUT /api/user/settings/location
UpdateLocationSettings(u, share) ==
    /\ Authenticated(u)
    /\ user' = [user EXCEPT ![u].shareLocation = Given(share, @)]
    /\ Respond("settingsLocation", u, NoFamily, NoUser, "200")
    /\ UNCHANGED <<family, conn, samples, perm, inflight, client>>

\* PUT /api/user/settings/privacy
UpdatePrivacySettings(u, history, emergency, visible) ==
    /\ Authenticated(u)
    /\ user' = [user EXCEPT ![u].shareLocationHistory = Given(history, @),
                            ![u].allowEmergencyAlerts = Given(emergency, @),
                            ![u].visibleToFamily = Given(visible, @)]
    /\ Respond("settingsPrivacy", u, NoFamily, NoUser, "200")
    /\ UNCHANGED <<family, conn, samples, perm, inflight, client>>

\* ------------------------------------------------- routes/location.js
\* The express-validator chain of POST /update: latitude and longitude are
\* floats in range, the timestamp is optional and ISO 8601.
UpdateValidationFails(coords, ts) ==
    \/ ~coords.present
    \/ ~LatInRange(coords.lat)
    \/ ~LonInRange(coords.lon)
    \/ ts = TsUnparseable

\* POST /api/location/update: the sample is saved and returned; nothing is
\* emitted on the sockets.
RestLocationUpdate(u, coords, ts) ==
    /\ Authenticated(u)
    /\ Len(samples) < MaxSamples
    /\ IF UpdateValidationFails(coords, ts)
       THEN /\ last' = IngestAnswer("rest_update", u, 0, coords, "400")
            /\ UNCHANGED samples
       ELSE IF ~user[u].shareLocation
       THEN /\ last' = IngestAnswer("rest_update", u, 0, coords, "403")
            /\ UNCHANGED samples
       ELSE LET when == IF ts = TsAbsent THEN Now ELSE ts
                loc == [NewSample(u, coords, when) EXCEPT
                           !.place = TagPlace(u, coords, 1, NoPlace)]
            IN  /\ samples' = Append(samples, loc)
                /\ last' = IngestAnswer("rest_update", u, 0, coords, "200")
    /\ emitted' = {}
    /\ UNCHANGED <<user, family, conn, perm, inflight, client>>

\* Mutant of DeleteHistory: the samples are removed from the store.
DeleteHistory_Hard(u, before) ==
    /\ Authenticated(u)
    /\ samples' = SelectSeq(samples, LAMBDA loc : loc.userId # u)
    /\ Respond("deleteHistory", u, NoFamily, NoUser, "200")
    /\ UNCHANGED <<user, family, conn, perm, inflight, client>>

\* DELETE /api/location/history: the caller's active samples (those older
\* than `before` when it is given) are marked inactive.
DeleteHistory(u, before) ==
    /\ Authenticated(u)
    /\ samples' = [i \in DOMAIN samples |->
                     IF /\ samples[i].userId = u
                        /\ before # Undefined => samples[i].ts < ValueOf(before)
                     THEN [samples[i] EXCEPT !.isActive = FALSE]
                     ELSE samples[i]]
    /\ Respond("deleteHistory", u, NoFamily, NoUser, "200")
    /\ UNCHANGED <<user, family, conn, perm, inflight, client>>

\* GET /api/location/nearby. The query's familyOnly is absent or a string;
\* isBoolean accepts 'true' and 'false' and refuses anything else (400). The
\* destructuring default is the boolean true, and only the string 'true'
\* selects the family branch. maxDistance is left to its default.
FamilyOnlyInputs == Optional({"true", "false", "yes"})
NearbyMaxDistance == 1000

\* The family branch's $geoNear query and $match: active samples within
\* reach whose familyIds meet the requester's families list, not the
\* requester's own, of owners with shareLocation and visibleToFamily.
NearbyOfFamilies(u, at) ==
    {i \in DOMAIN samples :
        /\ samples[i].isActive
        /\ distanceTo(samples[i], at) <= NearbyMaxDistance
        /\ samples[i].familyIds \cap FamilyIdsOf(u) # {}
        /\ samples[i].userId # u
        /\ user[samples[i].userId].shareLocation
        /\ user[samples[i].userId].visibleToFamily}

\* findNearPoint(latitude, longitude, maxDistance): every active sample
\* within reach.
findNearPoint(at) ==
    {i \in DOMAIN samples :
        samples[i].isActive /\ distanceTo(samples[i], at) <= NearbyMaxDistance}

GetNearby(u, at, familyOnly) ==
    /\ Authenticated(u)
    /\ IF familyOnly = Some("yes")
       THEN last' = Answer("nearby", u, 0, NoFamily, NoUser, "400", {})
       ELSE LET found == IF familyOnly = Some("true")
                         THEN NearbyOfFamilies(u, at)
                         ELSE findNearPoint(at)
            IN  last' = Answer("nearby", u, 0, NoFamily, NoUser, "200",
                               {[userId |-> samples[i].userId, sample |-> i] : i \in found})
    /\ emitted' = {}
    /\ UNCHANGED <<user, family, conn, samples, perm, inflight, client>>

\* requesterUser.families.some(rf => targetUser.families.some(tf => ...))
SharedFamilyLists(reqFamilies, tgtFamilies) ==
    \E i \in DOMAIN reqFamilies : \E j \in DOMAIN tgtFamilies :
        tgtFamilies[j].familyId = reqFamilies[i].familyId

\* GET /api/location/user/:userId/history
UserHistoryStatus(u, t) ==
    IF t \notin Users THEN "404"
    ELSE IF ~user[t].shareLocationHistory THEN "403"
    ELSE IF ~SharedFamilyLists(user[u].families, user[t].families) THEN "403"
    ELSE "200"

GetUserHistory(u, t) ==
    /\ Authenticated(u)
    /\ LET status == UserHistoryStatus(u, t) IN
       last' = Answer("user_history", u, 0, NoFamily, t, status,
                      IF status = "200"
                      THEN {[userId |-> t, sample |-> i] :
                              i \in {j \in DOMAIN samples :
                                       samples[j].userId = t /\ samples[j].isActive}}
                      ELSE {})
    /\ emitted' = {}
    /\ UNCHANGED <<user, family, conn, samples, perm, inflight, client>>

\* ------------------------------------------------- security utils (unnamed/part_001)
DataTypes == {"location", "locationHistory", "profile"}

\* Mutant of sharedFamily: the family check always passes.
sharedFamily_Always(requester, target) == TRUE

\* The users of an evaluation are the documents the caller loaded: an id,
\* a families list and the settings.
sharedFamily(requester, target) == SharedFamilyLists(requester.families, target.families)

\* Mutant of hasDataAccessPermission: 'location' forgets visibleToFamily.
hasDataAccessPermission_NoVisible(requester, target, dataType) ==
    IF requester.id = target.id THEN TRUE
    ELSE IF ~SharedFamilyLists(requester.families, target.families) THEN FALSE
    ELSE CASE dataType = "location" -> target.shareLocation
           [] dataType = "locationHistory" ->
                 target.shareLocationHistory /\ target.visibleToFamily
           [] dataType = "profile" -> target.visibleToFamily
           [] OTHER -> FALSE

hasDataAccessPermission(requester, target, dataType) ==
    IF requester.id = target.id THEN TRUE
    ELSE IF ~sharedFamily(requester, target) THEN FALSE
    ELSE CASE dataType = "location" ->
                 target.shareLocation /\ target.visibleToFamily
           [] dataType = "locationHistory" ->
                 target.shareLocationHistory /\ target.visibleToFamily
           [] dataType = "profile" -> target.visibleToFamily
           [] OTHER -> FALSE

\* The document of user u as a handler loads it.
UserDoc(u) ==
    PermDoc(u, user[u].families, user[u].shareLocation,
            user[u].shareLocationHistory, user[u].visibleToFamily)

\* ------------------------------------------------- specifications
\* The state after user 1 created family 1 (Init, then CreateFamily(1)).
InitOneFamily ==
    /\ user = [u \in Users |->
                 IF u = 1
                 THEN [DefaultUser EXCEPT !.families = <<[familyId |-> 1, role |-> "admin"]>>]
                 ELSE DefaultUser]
    /\ family = [f \in Families |-> IF f = 1 THEN NewFamilyDoc(1) ELSE NoFamilyDoc]
    /\ conn = [c \in Conns |-> ClosedConn]
    /\ samples = <<>>
    /\ emitted = {}
    /\ last = Answer("createFamily", NoUser, 0, NoFamily, NoUser, "201", {})
    /\ perm = NoPerm
    /\ inflight = NoInflight
    /\ client = NoClient

\* The admin floor at leave and removal: families are created and joined,
\* members are promoted and demoted, leave and are removed.
NextAdmins ==
    \/ \E u \in Users : CreateFamily(u)
    \/ \E u \in Users, f \in Families : JoinFamily(u, f)
    \/ \E u \in Users, f \in Families, m \in Users, role \in Roles :
          UpdateMemberRole(u, f, m, role)
    \/ \E u \in Users, f \in Families : LeaveFamily(u, f)
    \/ \E u \in Users, f \in Families, m \in Users : RemoveMember(u, f, m)

SpecAdmins == Init /\ [][NextAdmins]_vars

\* Rooms and audiences: one family, its membership changing under open
\* sockets, every broadcast of the socket handler.
NextRooms ==
    \/ \E u \in Users, f \in Families : JoinFamily(u, f)
    \/ \E u \in Users, f \in Families : LeaveFamily(u, f)
    \/ \E u \in Users, f \in Families, m \in Users : RemoveMember(u, f, m)
    \/ \E c \in Conns, u \in Users : Connect(c, u)
    \/ \E c \in Conns : Disconnect(c)
    \/ \E c \in Conns : SocketLocationUpdate(c, Point(10, 20), TsOld)
    \/ \E c \in Conns : EmergencyAlert(c)
    \/ \E c \in Conns, level \in Optional({20, 21}) : BatteryAlert(c, level)
    \/ \E c \in Conns, f \in Families : JoinFamilyRoom(c, f)
    \/ \E c \in Conns, f \in Families : LeaveFamilyRoom(c, f)

SpecRooms == InitOneFamily /\ [][NextRooms]_vars

\* The request bodies of an ingestion: coordinates missing, with a zero
\* component, ordinary, out of range; a timestamp absent, unparseable, valid.
CoordInputs ==
    {NoCoords, Point(10, 20), Point(0, 20), Point(10, 0),
     Point(9100, 20), Point(-9100, 20), Point(10, 18100), Point(10, -18100)}
TsInputs == {TsAbsent, TsUnparseable, TsOld}

\* Ingestion on both paths under the owner's shareLocation and
\* visibleToFamily settings.
NextIngest ==
    \/ \E u \in Users, f \in Families : JoinFamily(u, f)
    \/ \E u \in Users, share \in BOOLEAN : UpdateLocationSettings(u, Some(share))
    \/ \E u \in Users, visible \in BOOLEAN :
          UpdatePrivacySettings(u, Undefined, Undefined, Some(visible))
    \/ \E c \in Conns, u \in Users : Connect(c, u)
    \/ \E u \in Users, coords \in CoordInputs, ts \in TsInputs :
          RestLocationUpdate(u, coords, ts)
    \/ \E c \in Conns, coords \in CoordInputs, ts \in TsInputs :
          SocketLocationUpdate(c, coords, ts)

SpecIngest == InitOneFamily /\ [][NextIngest]_vars

\* Validation of the request body on both ingestion paths, no family involved.
NextValidation ==
    \/ \E c \in Conns, u \in Users : Connect(c, u)
    \/ \E u \in Users, coords \in CoordInputs, ts \in TsInputs :
          RestLocationUpdate(u, coords, ts)
    \/ \E c \in Conns, coords \in CoordInputs, ts \in TsInputs :
          SocketLocationUpdate(c, coords, ts)

SpecValidation == Init /\ [][NextValidation]_vars

\* Places for the tagging loop: one around the sample point with the default
\* radius, one 22 km away that is wide enough to contain it, one 22 km away
\* that is not.
TagPlaceInputs ==
    {Place(10, 20, 100, TRUE, {}), Place(10, 0, 25000, TRUE, {}),
     Place(10, 0, 100, TRUE, {})}

\* Place tagging at POST /update: families are created and joined, places
\* are added, a sample at (0.10, 0.20) is posted.
NextGeofence ==
    \/ \E u \in Users : CreateFamily(u)
    \/ \E u \in Users, f \in Families : JoinFamily(u, f)
    \/ \E f \in Families, place \in TagPlaceInputs : AddPlace(f, place)
    \/ \E u \in Users : RestLocationUpdate(u, Point(10, 20), TsAbsent)

SpecGeofence == Init /\ [][NextGeofence]_vars

\* The life of a persisted sample: written on either path, then membership
\* changes, history deletion, family deletion and account deletion.
NextSamples ==
    \/ \E u \in Users, f \in Families : JoinFamily(u, f)
    \/ \E u \in Users, f \in Families : LeaveFamily(u, f)
    \/ \E u \in Users, f \in Families, m \in Users : RemoveMember(u, f, m)
    \/ \E u \in Users, f \in Families : DeleteFamily(u, f)
    \/ \E u \in Users : DeleteAccount(u, TRUE)
    \/ \E u \in Users : RestLocationUpdate(u, Point(10, 20), TsAbsent)
    \/ \E c \in Conns, u \in Users : Connect(c, u)
    \/ \E c \in Conns : SocketLocationUpdate(c, Point(10, 20), TsOld)
    \/ \E u \in Users, before \in Optional({1}) : DeleteHistory(u, before)

SpecSamples == InitOneFamily /\ [][NextSamples]_vars

\* Places for the alerts: around the sample point, with arrival alerts on or
\* off and with or without a list of members to notify, and one elsewhere.
NotifyInputs == {{}, {NumUsers}}

AlertPlaceInputs ==
    {Place(10, 20, 100, arrival, notify) :
        arrival \in BOOLEAN, notify \in NotifyInputs}
    \cup {Place(10, 0, 100, TRUE, {})}

\* Place alerts of the socket handler: members join, places are added,
\* sockets open, a sample at (0.10, 0.20) arrives on a socket.
NextAlerts ==
    \/ \E u \in Users, f \in Families : JoinFamily(u, f)
    \/ \E f \in Families, place \in AlertPlaceInputs : AddPlace(f, place)
    \/ \E c \in Conns, u \in Users : Connect(c, u)
    \/ \E c \in Conns : SocketLocationUpdate(c, Point(10, 20), TsOld)

SpecAlerts == InitOneFamily /\ [][NextAlerts]_vars

\* The follow-up of an ingestion on both paths: members join, places are
\* added, sockets open, a sample at (0.10, 0.20) arrives by REST or on a socket.
NextFanout ==
    \/ \E u \in Users, f \in Families : JoinFamily(u, f)
    \/ \E f \in Families, place \in AlertPlaceInputs : AddPlace(f, place)
    \/ \E c \in Conns, u \in Users : Connect(c, u)
    \/ \E u \in Users : RestLocationUpdate(u, Point(10, 20), TsAbsent)
    \/ \E c \in Conns : SocketLocationUpdate(c, Point(10, 20), TsOld)

SpecFanout == InitOneFamily /\ [][NextFanout]_vars

\* The location_update handler with a store that can reject a call.
NextFaults ==
    \/ \E u \in Users, f \in Families : JoinFamily(u, f)
    \/ \E f \in Families, place \in AlertPlaceInputs : AddPlace(f, place)
    \/ \E c \in Conns, u \in Users : Connect(c, u)
    \/ \E c \in Conns, coords \in CoordInputs, ts \in TsInputs :
          SocketLocationUpdate(c, coords, ts)
    \/ \E c \in Conns, coords \in CoordInputs, ts \in TsInputs, fault \in StoreFaults :
          SocketLocationUpdateFault(c, coords, ts, fault)

SpecFaults == InitOneFamily /\ [][NextFaults]_vars

\* Place alerts with an emit that can throw: members join, places are added,
\* sockets open, a sample at (0.10, 0.20) arrives on a socket.
NextIsolation ==
    \/ \E u \in Users, f \in Families : JoinFamily(u, f)
    \/ \E f \in Families, place \in AlertPlaceInputs : AddPlace(f, place)
    \/ \E c \in Conns, u \in Users : Connect(c, u)
    \/ \E c \in Conns : SocketLocationUpdate(c, Point(10, 20), TsOld)
    \/ \E c \in Conns, f \in Families, k \in 1..MaxPlaces, m \in Users :
          SocketLocationUpdateAlertFault(c, Point(10, 20),
                                         [family |-> f, place |-> k, to |-> m])

SpecIsolation == InitOneFamily /\ [][NextIsolation]_vars

\* The channel's answers to requests about a family: users join family 1
\* (family 2 does not exist), sockets open and ask to join a family's room
\* or for a family's locations.
NextDenials ==
    \/ \E u \in Users, f \in Families : JoinFamily(u, f)
    \/ \E u \in Users : RestLocationUpdate(u, Point(10, 20), TsAbsent)
    \/ \E c \in Conns, u \in Users : Connect(c, u)
    \/ \E c \in Conns, f \in Families : JoinFamilyRoom(c, f)
    \/ \E c \in Conns, f \in Families : GetFamilyLocations(c, f)

SpecDenials == InitOneFamily /\ [][NextDenials]_vars

\* Nearby samples: families are joined and left, samples are posted at
\* (0.10, 0.20) and searched around that point.
NextNearby ==
    \/ \E u \in Users : CreateFamily(u)
    \/ \E u \in Users, f \in Families : JoinFamily(u, f)
    \/ \E u \in Users, f \in Families : LeaveFamily(u, f)
    \/ \E u \in Users : RestLocationUpdate(u, Point(10, 20), TsAbsent)
    \/ \E u \in Users, familyOnly \in FamilyOnlyInputs :
          GetNearby(u, Point(10, 20), familyOnly)

SpecNearby == Init /\ [][NextNearby]_vars

\* A deleted family: members join, a place is added, the admin deletes the
\* family, and its former members go on using sockets and routes.
NextDeleted ==
    \/ \E u \in Users, f \in Families : JoinFamily(u, f)
    \/ \E f \in Families : AddPlace(f, Place(10, 20, 100, TRUE, {}))
    \/ \E u \in Users, f \in Families : DeleteFamily(u, f)
    \/ \E c \in Conns, u \in Users : Connect(c, u)
    \/ \E c \in Conns, f \in Families : JoinFamilyRoom(c, f)
    \/ \E c \in Conns, f \in Families : GetFamilyLocations(c, f)
    \/ \E u \in Users, f \in Families : GetFamily(u, f)
    \/ \E u \in Users, f \in Families : RestFamilyLocations(u, f)
    \/ \E u \in Users : RestLocationUpdate(u, Point(10, 20), TsAbsent)
    \/ \E c \in Conns : SocketLocationUpdate(c, Point(10, 20), TsOld)

SpecDeleted == InitOneFamily /\ [][NextDeleted]_vars

\* Concurrent joins: families are created and join requests run store call
\* by store call, two at a time.
NextJoinRace ==
    \/ \E u \in Users : CreateFamily(u)
    \/ \E r \in Reqs, u \in Users, f \in Families : BeginJoin(r, u, f)
    \/ \E r \in Reqs : FamilyWrite(r)
    \/ \E r \in Reqs : UserWrite(r, TRUE)

SpecJoinRace == Init /\ [][NextJoinRace]_vars

\* Family 1 with two admins and a third member who sends no request: user 1
\* created it, users 2 and NumUsers + 1 joined, user 1 promoted user 2.
InitTwoAdmins ==
    /\ user = [u \in 1..(NumUsers + 1) |->
                 [DefaultUser EXCEPT !.families =
                     <<[familyId |-> 1, role |-> IF u <= 2 THEN "admin" ELSE "member"]>>]]
    /\ family = [f \in Families |->
                   IF f = 1
                   THEN [NewFamilyDoc(1) EXCEPT !.members =
                            [i \in 1..(NumUsers + 1) |->
                                [userId |-> i, role |-> IF i <= 2 THEN "admin" ELSE "member"]]]
                   ELSE NoFamilyDoc]
    /\ conn = [c \in Conns |-> ClosedConn]
    /\ samples = <<>>
    /\ emitted = {}
    /\ last = Answer("updateRole", NoUser, 0, NoFamily, NoUser, "200", {})
    /\ perm = NoPerm
    /\ inflight = NoInflight
    /\ client = NoClient

\* The admin floor under concurrent requests: each admin leaves, removes the
\* other admin or demotes the other admin, store call by store call.
NextAdminRace ==
    \/ \E r \in Reqs, u \in Users, f \in Families : BeginLeave(r, u, f)
    \/ \E r \in Reqs, u \in Users, f \in Families :
          \E m \in Users \ {u} : BeginRemove(r, u, f, m)
    \/ \E r \in Reqs, u \in Users, f \in Families :
          \E m \in Users \ {u} : BeginRole(r, u, f, m, "member")
    \/ \E r \in Reqs : FamilyWrite(r)
    \/ \E r \in Reqs : UserWrite(r, TRUE)

SpecAdminRace == InitTwoAdmins /\ [][NextAdminRace]_vars

\* The two-sided update with a user-side store call that can reject: one
\* request at a time, store call by store call.
NextPartial ==
    \/ \E u \in Users, f \in Families : BeginJoin(1, u, f)
    \/ \E u \in Users, f \in Families : BeginLeave(1, u, f)
    \/ \E u \in Users, f \in Families, m \in Users : BeginRemove(1, u, f, m)
    \/ \E u \in Users, f \in Families, m \in Users, role \in Roles :
          BeginRole(1, u, f, m, role)
    \/ FamilyWrite(1)
    \/ \E ok \in BOOLEAN : UserWrite(1, ok)

SpecPartial == InitOneFamily /\ [][NextPartial]_vars

\* A place around (0.10, 0.20) with arrival alerts on whose membersToNotify
\* lists members of the family.
AddNotifyingPlace(f, notify) ==
    /\ \A m \in notify : isUserMember(family[f], m)
    /\ AddPlace(f, Place(10, 20, 100, TRUE, notify))

\* Places that list members to notify, added while the listed users are
\* members; afterwards members leave or are removed and samples arrive.
NextNotified ==
    \/ \E u \in Users, f \in Families : JoinFamily(u, f)
    \/ \E u \in Users, f \in Families : LeaveFamily(u, f)
    \/ \E u \in Users, f \in Families, m \in Users : RemoveMember(u, f, m)
    \/ \E f \in Families, notify \in NotifyInputs : AddNotifyingPlace(f, notify)
    \/ \E c \in Conns, u \in Users : Connect(c, u)
    \/ \E c \in Conns : SocketLocationUpdate(c, Point(10, 20), TsOld)

SpecNotified == InitOneFamily /\ [][NextNotified]_vars

\* Events of one connection in flight together: members join, sockets open,
\* location_update events arrive and their handlers run await by await.
NextOrdering ==
    \/ \E u \in Users, f \in Families : JoinFamily(u, f)
    \/ \E c \in Conns, u \in Users : Connect(c, u)
    \/ \E r \in Reqs, c \in Conns, coords \in {NoCoords, Point(10, 20)} :
          ReceiveLocationUpdate(r, c, coords)
    \/ \E r \in Reqs : LocationSaved(r)
    \/ \E r \in Reqs : LocationBroadcast(r)

SpecOrdering == InitOneFamily /\ [][NextOrdering]_vars

\* Presence and family broadcasts: users create and join families, sockets
\* open and close, location and battery events arrive.
BatteryInputs == Optional({20, 21})

NextPresence ==
    \/ \E u \in Users : CreateFamily(u)
    \/ \E u \in Users, f \in Families : JoinFamily(u, f)
    \/ \E c \in Conns, u \in Users : Connect(c, u)
    \/ \E c \in Conns : Disconnect(c)
    \/ \E c \in Conns : SocketLocationUpdate(c, Point(10, 20), TsOld)
    \/ \E c \in Conns, level \in BatteryInputs : BatteryAlert(c, level)

SpecPresence == Init /\ [][NextPresence]_vars

\* The family's latest locations on both paths, under the members'
\* shareLocation and visibleToFamily settings.
NextLocations ==
    \/ \E u \in Users, f \in Families : JoinFamily(u, f)
    \/ \E u \in Users, f \in Families : LeaveFamily(u, f)
    \/ \E u \in Users, share \in BOOLEAN : UpdateLocationSettings(u, Some(share))
    \/ \E u \in Users, visible \in BOOLEAN :
          UpdatePrivacySettings(u, Undefined, Undefined, Some(visible))
    \/ \E u \in Users : RestLocationUpdate(u, Point(10, 20), TsAbsent)
    \/ \E u \in Users : DeleteHistory(u, Undefined)
    \/ \E c \in Conns, u \in Users : Connect(c, u)
    \/ \E c \in Conns, f \in Families : GetFamilyLocations(c, f)
    \/ \E u \in Users, f \in Families : RestFamilyLocations(u, f)

SpecLocations == InitOneFamily /\ [][NextLocations]_vars

\* A member's history, under the target's shareLocationHistory and
\* visibleToFamily settings.
NextHistory ==
    \/ \E u \in Users, f \in Families : JoinFamily(u, f)
    \/ \E u \in Users, f \in Families : LeaveFamily(u, f)
    \/ \E u \in Users, history, visible \in Optional(BOOLEAN) :
          UpdatePrivacySettings(u, history, Undefined, visible)
    \/ \E u \in Users : RestLocationUpdate(u, Point(10, 20), TsAbsent)
    \/ \E u \in Users, t \in Users \cup {NoUser} : GetUserHistory(u, t)

SpecHistory == InitOneFamily /\ [][NextHistory]_vars

\* ------------------------------------------------- the permission helper alone
\* Families lists: entries with distinct family ids, in any order, any roles.
FamilyLists ==
    {l \in UNION {[1..n -> [familyId : Families, role : Roles]] : n \in 0..NumFamilies} :
        \A i, j \in DOMAIN l : i # j => l[i].familyId # l[j].familyId}

\* The requester's settings are not read; it comes with the defaults.
InitPerm ==
    /\ user = [u \in Users |-> DefaultUser]
    /\ family = [f \in Families |-> NoFamilyDoc]
    /\ conn = [c \in Conns |-> ClosedConn]
    /\ samples = <<>>
    /\ emitted = {}
    /\ last = NoAnswer
    /\ \E r, t \in Users, rf, tf \in FamilyLists, share, history, visible \in BOOLEAN :
          perm = [requester |-> PermDoc(r, rf, TRUE, TRUE, TRUE),
                  target |-> PermDoc(t, tf, share, history, visible),
                  dataType |-> "none", evaluated |-> FALSE, result |-> FALSE]
    /\ inflight = NoInflight
    /\ client = NoClient

\* One call; a caller that leaves dataType out gets the default 'location'.
EvaluatePermission(dataType) ==
    LET d == Given(dataType, "location") IN
    /\ perm' = [perm EXCEPT !.dataType = d, !.evaluated = TRUE,
                            !.result = hasDataAccessPermission(perm.requester, perm.target, d)]
    /\ UNCHANGED <<user, family, conn, samples, emitted, last, inflight, client>>

NextPerm == \E d \in Optional(DataTypes \cup {"other"}) : EvaluatePermission(d)

SpecPerm == InitPerm /\ [][NextPerm]_vars

\* ------------------------------------------------- claims: permission evaluator
\* The claim's own reading of "share at least one family": some family id
\* occurs in both families lists.
ListedIn(doc) == {doc.families[i].familyId : i \in DOMAIN doc.families}
ShareAFamily(a, b) == ListedIn(a) \cap ListedIn(b) # {}

\* What the spec requires of the target for each category (the spec's
\* currentLocation is the code's 'location').
RequiredFlags(target, dataType) ==
    CASE dataType = "location" -> target.shareLocation /\ target.visibleToFamily
      [] dataType = "locationHistory" ->
            target.shareLocationHistory /\ target.visibleToFamily
      [] dataType = "profile" -> target.visibleToFamily

\* canAccess of the spec: own data always, otherwise a shared family and the
\* flags of the category.
CanAccess(requester, target, dataType) ==
    \/ requester.id = target.id
    \/ ShareAFamily(requester, target) /\ RequiredFlags(target, dataType)

\* The target with one of its flags set to false.
FlagsOff(target) ==
    {[target EXCEPT !.shareLocation = FALSE],
     [target EXCEPT !.shareLocationHistory = FALSE],
     [target EXCEPT !.visibleToFamily = FALSE]}

\* C5: for requester # target sharing a family, access to a category is
\* granted exactly when the target's flags of that category are all true, and
\* setting any flag the category requires to false turns a grant into a denial.
C5_SharedFamilyGatedByFlags ==
    (/\ perm.evaluated
     /\ perm.dataType \in DataTypes
     /\ perm.requester.id # perm.target.id
     /\ ShareAFamily(perm.requester, perm.target))
    => /\ perm.result = RequiredFlags(perm.target, perm.dataType)
       /\ \A off \in FlagsOff(perm.target) :
             (perm.result /\ ~RequiredFlags(off, perm.dataType))
             => ~hasDataAccessPermission(perm.requester, off, perm.dataType)

C5_Witness ==
    /\ perm.evaluated
    /\ perm.dataType = "location"
    /\ perm.requester.id # perm.target.id
    /\ ShareAFamily(perm.requester, perm.target)
    /\ perm.target.shareLocation /\ perm.target.visibleToFamily
    /\ perm.result

\* C6: two distinct users with no family in common are denied every
\* category, whatever the target's settings.
C6_NoSharedFamilyDenied ==
    (/\ perm.evaluated
     /\ perm.requester.id # perm.target.id
     /\ ~ShareAFamily(perm.requester, perm.target))
    => ~perm.result

C6_Witness ==
    /\ perm.evaluated
    /\ perm.dataType = "location"
    /\ perm.requester.id # perm.target.id
    /\ perm.requester.families # <<>>
    /\ perm.target.families # <<>>
    /\ ~ShareAFamily(perm.requester, perm.target)
    /\ perm.target.shareLocation /\ perm.target.shareLocationHistory
    /\ perm.target.visibleToFamily
    /\ ~perm.result

\* ------------------------------------------------- claims: membership
\* C1: every family whose members list is non-empty has at least one member
\* with role admin, after any sequence of membership operations.
C1_AdminFloor ==
    \A f \in Families :
        (family[f].exists /\ family[f].members # <<>>) => adminCount(family[f]) >= 1

\* C2: user U has a families entry for family F with role r if and only if
\* F.members has an entry for U with role r.
C2_MembershipMirror ==
    \A u \in Users, f \in Families, r \in Roles :
        ([familyId |-> f, role |-> r] \in Range(user[u].families))
        <=> (family[f].exists /\ [userId |-> u, role |-> r] \in Range(family[f].members))

\* ------------------------------------------------- claims: audiences
\* Users a and b are, now, members of one family.
CoMembers(a, b) ==
    \E f \in Families :
        family[f].exists /\ isUserMember(family[f], a) /\ isUserMember(family[f], b)

FamilyBroadcasts == {"member_location_update", "battery_alert", "user_status_change"}

\* C3: a member_location_update, battery_alert or user_status_change about
\* user U is delivered only to connections of users who, at delivery time, are
\* members of a family U belongs to; a user who left or was removed gets no
\* further broadcast on a connection that was already open.
C3_BroadcastAudience ==
    \A e \in emitted :
        e.event \in FamilyBroadcasts => CoMembers(e.about, conn[e.to].user)

\* C4: an emergency_alert sent by U is delivered to every open connection,
\* other than the sending one, of a user who is currently a member of a family
\* U belongs to, members who joined after their connection was opened included.
C4_EmergencyReachesAll ==
    last.op = "emergency_alert" =>
        \A d \in Conns :
            (/\ d # last.conn
             /\ conn[d].user # NoUser
             /\ CoMembers(conn[last.conn].user, conn[d].user))
            => \E e \in emitted :
                  /\ e.event = "emergency_alert"
                  /\ e.about = conn[last.conn].user
                  /\ e.to = d

\* C7: a member_location_update carrying U's location is never delivered to
\* another user while U's shareLocation or U's visibleToFamily is false.
C7_NoUpdateWhileHidden ==
    \A e \in emitted :
        (e.event = "member_location_update" /\ conn[e.to].user # e.about)
        => (user[e.about].shareLocation /\ user[e.about].visibleToFamily)

C9_HistoryMatchesCanAccess ==
    (last.op = "user_history" /\ last.target \in Users)
    => ((last.status = "200")
        <=> CanAccess(UserDoc(last.user), UserDoc(last.target), "locationHistory"))

\* ------------------------------------------------- claims: ingestion
\* The handler persisted nothing, broadcast nothing and answered an error.
IngestRejected ==
    /\ samples' = samples
    /\ emitted' = {}
    /\ last'.status \notin {"200", "success"}

\* C10: an ingestion while the owner's shareLocation is false is rejected, with
\* nothing persisted or broadcast, on the REST path (a permission error, 403,
\* for a body that passes validation) and on the socket path.
C10_IngestRejectedWhenNotSharing ==
    [][/\ \A u \in Users, coords \in CoordInputs, ts \in TsInputs :
            (RestLocationUpdate(u, coords, ts) /\ ~user[u].shareLocation)
            => /\ IngestRejected
               /\ ~UpdateValidationFails(coords, ts) => last'.status = "403"
       /\ \A c \in Conns, coords \in CoordInputs, ts \in TsInputs :
            (/\ SocketLocationUpdate(c, coords, ts)
             /\ conn[c].user # NoUser
             /\ ~user[conn[c].user].shareLocation)
            => IngestRejected]_vars

\* ------------------------------------------------- claims: validation
\* Coordinates the spec rejects: missing, latitude outside [-90, 90] or
\* longitude outside [-180, 180] (hundredths of a degree).
BadCoordinates(coords) ==
    \/ ~coords.present
    \/ coords.lat < -9000 \/ coords.lat > 9000
    \/ coords.lon < -18000 \/ coords.lon > 18000

\* C11: a sample whose coordinates are missing or out of range is rejected
\* with an error on both ingestion paths (400 on REST, an error event on the
\* socket) and the persisted samples are unchanged.
C11_BadCoordinatesRejected ==
    [][\A coords \in CoordInputs, ts \in TsInputs :
          BadCoordinates(coords) =>
             /\ \A u \in Users :
                   RestLocationUpdate(u, coords, ts)
                   => (samples' = samples /\ last'.status = "400")
             /\ \A c \in Conns :
                   SocketLocationUpdate(c, coords, ts)
                   => /\ samples' = samples
                      /\ emitted' = {}
                      /\ last'.status \in {"error_invalid", "error_failed"}]_vars

C11_Witness ==
    /\ last.op = "location_update"
    /\ last.req = Point(9100, 20)
    /\ last.status = "error_failed"
    /\ samples = <<>>

\* ------------------------------------------------- claims: geofence
\* The families whose places tag a sample of u, in iteration order, and the
\* first place in family-then-place order that contains loc.
TaggingFamilies(u, loc) ==
    {f \in Families :
        /\ family[f].exists /\ family[f].isActive /\ isUserMember(family[f], u)
        /\ \E k \in DOMAIN family[f].places : isWithinPlace(loc, family[f].places[k])}

FirstMatch(u, loc) ==
    IF TaggingFamilies(u, loc) = {} THEN NoPlace
    ELSE LET f == CHOOSE g \in TaggingFamilies(u, loc) :
                      \A h \in TaggingFamilies(u, loc) : g <= h
             k == CHOOSE i \in DOMAIN family[f].places :
                      /\ isWithinPlace(loc, family[f].places[i])
                      /\ \A j \in 1..(i - 1) : ~isWithinPlace(loc, family[f].places[j])
         IN  [family |-> f, index |-> k]

\* C12: the place attached at ingestion is the first place, in
\* family-then-place iteration order, that contains the sample; no later
\* family or place replaces it.
C12_FirstMatchTag ==
    (last.op = "rest_update" /\ last.status = "200")
    => LET loc == samples[Len(samples)]
       IN  loc.place = FirstMatch(loc.userId, loc)

C14_SamplesImmutable ==
    [][/\ Len(samples') >= Len(samples)
       /\ \A i \in DOMAIN samples :
             /\ i \in DOMAIN samples'
             /\ [samples'[i] EXCEPT !.isActive = samples[i].isActive] = samples[i]
             /\ samples'[i].isActive # samples[i].isActive =>
                   \/ \E u \in Users, before \in Optional({1}) : DeleteHistory(u, before)
                   \/ \E u \in Users : DeleteAccount(u, TRUE)]_vars

C14_Witness ==
    /\ last.op = "deleteHistory"
    /\ \E i \in DOMAIN samples :
          ~samples[i].isActive /\ samples[i].lat = 10 /\ samples[i].lon = 20

\* ------------------------------------------------- claims: place alerts
\* The places that raise an arrival alert for a sample of owner: places of a
\* family of the owner that contain the sample and have arrivalAlerts on.
AlertingPlaces(owner, loc) ==
    {fk \in Families \X (1..MaxPlaces) :
        /\ family[fk[1]].exists
        /\ \E i \in DOMAIN family[fk[1]].members : family[fk[1]].members[i].userId = owner
        /\ fk[2] \in DOMAIN family[fk[1]].places
        /\ isWithinPlace(loc, family[fk[1]].places[fk[2]])
        /\ family[fk[1]].places[fk[2]].arrivalAlerts}

\* The recipients the spec selects for the place fk: membersToNotify when it
\* is not empty, otherwise all members of the family; never the owner.
SelectedRecipients(fk, owner) ==
    LET fam == family[fk[1]]
        listed == fam.places[fk[2]].membersToNotify
    IN  (IF listed # {} THEN listed
         ELSE {fam.members[i].userId : i \in DOMAIN fam.members}) \ {owner}

AlertRecipients(owner, loc) ==
    UNION {SelectedRecipients(fk, owner) : fk \in AlertingPlaces(owner, loc)}

PlaceAlertsTo == {e.to : e \in {d \in emitted : d.event = "place_alert"}}

IngestedOnSocket == last.op = "location_update" /\ last.status = "success"

\* C15: for a sample inside places with arrivalAlerts on, the place_alert
\* reaches exactly the sockets of the selected recipients: membersToNotify
\* when non-empty, otherwise all members of the family, minus the owner, who
\* never receives the alert.
C15_PlaceAlertRecipients ==
    IngestedOnSocket =>
        LET loc == samples[Len(samples)] IN
        /\ PlaceAlertsTo = {c \in Conns : conn[c].user \in AlertRecipients(loc.userId, loc)}
        /\ \A c \in PlaceAlertsTo : conn[c].user # loc.userId

C15_Witness ==
    /\ IngestedOnSocket
    /\ \E fk \in AlertingPlaces(samples[Len(samples)].userId, samples[Len(samples)]) :
          family[fk[1]].places[fk[2]].membersToNotify # {}
    /\ PlaceAlertsTo # {}

\* C16: a place_alert goes to the personal channels of the selected
\* recipients only, never to a family channel: a socket of a user outside
\* the recipient set gets none, also when it is in the family's room.
C16_PlaceAlertPersonalOnly ==
    IngestedOnSocket =>
        LET loc == samples[Len(samples)] IN
        \A c \in Conns :
            (conn[c].user # NoUser /\ conn[c].user \notin AlertRecipients(loc.userId, loc))
            => ~\E e \in emitted : e.event = "place_alert" /\ e.to = c

C16_Witness ==
    /\ IngestedOnSocket
    /\ AlertingPlaces(samples[Len(samples)].userId, samples[Len(samples)]) # {}
    /\ \E c \in Conns :
          /\ conn[c].user # samples[Len(samples)].userId
          /\ \E e \in emitted : e.event = "member_location_update" /\ e.to = c
          /\ c \notin PlaceAlertsTo

\* ------------------------------------------------- claims: family broadcasts
\* The open sockets, other than c, subscribed to the channel of a family of
\* u's families list.
FamilyChannelSockets(c, u) ==
    {d \in Conns \ {c} :
        /\ conn[d].user # NoUser
        /\ \E k \in DOMAIN user[u].families : user[u].families[k].familyId \in conn[d].rooms}

DeliveredTo(event, type) ==
    {e.to : e \in {d \in emitted : d.event = event /\ d.type = type}}

\* C17: on a successful socket location_update, member_location_update goes
\* to the channel of every family of the sender's families list, and the
\* sending connection is never among the recipients.
C17_LocationBroadcast ==
    IngestedOnSocket =>
        /\ DeliveredTo("member_location_update", "location")
              = FamilyChannelSockets(last.conn, conn[last.conn].user)
        /\ last.conn \notin DeliveredTo("member_location_update", "location")
        /\ \A e \in emitted :
              e.event = "member_location_update" => e.about = conn[last.conn].user

C17_Witness ==
    /\ IngestedOnSocket
    /\ Len(user[conn[last.conn].user].families) = 2
    /\ conn[last.conn].rooms # {}
    /\ DeliveredTo("member_location_update", "location") # {}

\* C18: a battery_alert is broadcast only when the reported level is <= 20;
\* for every inbound battery_alert with level > 20 nothing is emitted.
C18_BatteryThreshold ==
    [][\A c \in Conns, level \in BatteryInputs :
          BatteryAlert(c, level) =>
             /\ emitted' # {} => (level # Undefined /\ ValueOf(level) <= 20)
             /\ (level # Undefined /\ ValueOf(level) > 20) => emitted' = {}]_vars

\* C19: join_family for family F subscribes the connection to family_F and
\* answers joined_family only if the user is a member of F at that time;
\* otherwise the subscriptions are unchanged and an error event is answered.
C19_JoinFamilyChecked ==
    [][\A c \in Conns, f \in Families :
          JoinFamilyRoom(c, f) =>
             IF /\ family[f].exists
                /\ \E i \in DOMAIN family[f].members :
                      family[f].members[i].userId = conn[c].user
             THEN /\ conn' = [conn EXCEPT ![c].rooms = conn[c].rooms \cup {f}]
                  /\ last'.status = "joined_family"
             ELSE /\ conn' = conn
                  /\ last'.status = "error"]_vars

C19_Witness ==
    /\ last.op = "join_family"
    /\ last.status = "error"
    /\ family[1].exists
    /\ conn[last.conn].user # NoUser
    /\ ~isUserMember(family[1], conn[last.conn].user)
    /\ 1 \notin conn[last.conn].rooms

\* C20: on connect the connection is subscribed to the user's personal
\* channel and to one channel per family of the user's families list, and
\* user_online goes to those family channels; on disconnect user_offline
\* goes to the channels of the user's families list and the user's
\* last-active timestamp is persisted.
C20_PresenceLifecycle ==
    [][/\ \A c \in Conns, u \in Users :
             Connect(c, u) =>
                /\ conn'[c].user = u
                /\ conn'[c].rooms =
                      {user[u].families[k].familyId : k \in DOMAIN user[u].families}
                /\ DeliveredTo("user_status_change", "user_online")'
                      = FamilyChannelSockets(c, u)
       /\ \A c \in Conns :
             Disconnect(c) =>
                /\ DeliveredTo("user_status_change", "user_offline")'
                      = FamilyChannelSockets(c, conn[c].user)
                /\ user'[conn[c].user].lastActive = Now
                /\ conn'[c].user = NoUser]_vars

C20_Witness ==
    /\ last.op = "disconnect"
    /\ \E e \in emitted :
          /\ e.event = "user_status_change" /\ e.type = "user_offline"
          /\ user[e.about].lastActive = Now
          /\ Len(user[e.about].families) = 2

\* ------------------------------------------------- claims: the admin floor at removal
\* User m holds the only admin entry of fam and fam has other members.
OnlyAdminWithOthers(fam, m) ==
    /\ \E i \in DOMAIN fam.members : fam.members[i] = [userId |-> m, role |-> "admin"]
    /\ \A i \in DOMAIN fam.members : fam.members[i].role = "admin" => fam.members[i].userId = m
    /\ \E i \in DOMAIN fam.members : fam.members[i].userId # m

\* User m is an admin of fam and fam has another admin.
AdminBesideAnother(fam, m) ==
    /\ \E i \in DOMAIN fam.members : fam.members[i] = [userId |-> m, role |-> "admin"]
    /\ \E i \in DOMAIN fam.members :
          fam.members[i].role = "admin" /\ fam.members[i].userId # m

\* C21: removing, or leaving as, the only admin of a family that still has
\* other members is rejected and leaves Family.members and every
\* User.families unchanged; removing an admin while another admin exists
\* succeeds and removes the member from Family.members and the family from
\* that user's families.
C21_OnlyAdminKept ==
    [][/\ \A u \in Users, f \in Families :
             (LeaveFamily(u, f) /\ family[f].exists /\ OnlyAdminWithOthers(family[f], u))
             => (family' = family /\ user' = user /\ last'.status = "400")
       /\ \A u \in Users, f \in Families, m \in Users :
             (RemoveMember(u, f, m) /\ family[f].exists /\ isUserAdmin(family[f], u))
             => /\ OnlyAdminWithOthers(family[f], m)
                   => (family' = family /\ user' = user /\ last'.status = "400")
                /\ AdminBesideAnother(family[f], m)
                   => /\ last'.status = "200"
                      /\ \A i \in DOMAIN family'[f].members :
                            family'[f].members[i].userId # m
                      /\ Len(family'[f].members) = Len(family[f].members) - 1
                      /\ \A k \in DOMAIN user'[m].families :
                            user'[m].families[k].familyId # f
                      /\ \A v \in Users \ {m} : user'[v] = user[v]
                      /\ \A g \in Families \ {f} : family'[g] = family[g]]_vars

C21_Witness ==
    /\ last.op = "leave"
    /\ last.status = "400"
    /\ family[1].exists /\ ~family[2].exists
    /\ \E u \in Users : OnlyAdminWithOthers(family[1], u)
    /\ \A u \in Users : \E k \in DOMAIN user[u].families : user[u].families[k].familyId = 1

\* ------------------------------------------------- claims: the follow-up of an ingestion
\* A sample was persisted by the last request, on either path.
Ingested ==
    \/ last.op = "rest_update" /\ last.status = "200"
    \/ last.op = "location_update" /\ last.status = "success"

\* C22: every successful ingestion, through POST /location/update as well as
\* through the socket location_update event, is followed by the place alerts
\* of the sample and by a member_location_update broadcast to the owner's
\* family channels.
C22_IngestionFansOut ==
    Ingested =>
        LET loc == samples[Len(samples)] IN
        /\ DeliveredTo("member_location_update", "location")
              = FamilyChannelSockets(last.conn, loc.userId)
        /\ PlaceAlertsTo = {c \in Conns : conn[c].user \in AlertRecipients(loc.userId, loc)}

\* C23: for a socket location_update the sender receives
\* location_update_success if and only if the sample was persisted; a failure
\* in a step after persistence never turns the reply into an error, and an
\* error reply implies nothing was persisted.
C23_ReplyMatchesStore ==
    [][\A c \in Conns, coords \in CoordInputs, ts \in TsInputs :
          (\/ SocketLocationUpdate(c, coords, ts)
           \/ \E fault \in StoreFaults : SocketLocationUpdateFault(c, coords, ts, fault))
          => /\ (last'.status = "success") <=> (Len(samples') = Len(samples) + 1)
             /\ last'.status \in {"error_invalid", "error_failed"} => samples' = samples]_vars

C25_NearbyWithinFamilies ==
    last.op = "nearby" =>
        \A e \in last.locs :
            \/ e.userId = last.user
            \/ CoMembers(last.user, e.userId)
            \/ \E i \in DOMAIN user[last.user].families :
                  \E j \in DOMAIN user[e.userId].families :
                     user[last.user].families[i].familyId = user[e.userId].families[j].familyId

\* ------------------------------------------------- claims: deleted families
\* Family f has been deleted: the document is kept and marked inactive.
Deleted(f) == family[f].exists /\ ~family[f].isActive

\* The users the places of families that are not deleted select for an
\* arrival alert about a sample of owner.
LiveAlertRecipients(owner, loc) ==
    UNION {SelectedRecipients(fk, owner) :
              fk \in {gk \in AlertingPlaces(owner, loc) : ~Deleted(gk[1])}}

\* C26: after a family has been deleted no former member can use it:
\* join_family and get_family_locations for it are refused, GET
\* /family/:familyId and /locations are refused, its places no longer tag
\* samples and no place_alert is emitted for its places.
C26_DeletedFamilyUnusable ==
    [][/\ \A c \in Conns, f \in Families :
             (JoinFamilyRoom(c, f) /\ Deleted(f))
             => (last'.status = "error" /\ conn' = conn)
       /\ \A c \in Conns, f \in Families :
             (GetFamilyLocations(c, f) /\ Deleted(f)) => last'.status = "error"
       /\ \A u \in Users, f \in Families :
             ((GetFamily(u, f) \/ RestFamilyLocations(u, f)) /\ Deleted(f))
             => last'.status # "200"
       /\ \A u \in Users :
             (RestLocationUpdate(u, Point(10, 20), TsAbsent) /\ Len(samples') > Len(samples))
             => LET tag == samples'[Len(samples')].place
                IN  tag.family # NoFamily => ~Deleted(tag.family)
       /\ \A c \in Conns :
             (SocketLocationUpdate(c, Point(10, 20), TsOld) /\ Len(samples') > Len(samples))
             => LET loc == samples'[Len(samples')]
                IN  \A e \in emitted' :
                       e.event = "place_alert"
                       => conn[e.to].user \in LiveAlertRecipients(loc.userId, loc)]_vars

\* ------------------------------------------------- claims: concurrent requests
\* C27: under any interleaving of concurrent join requests, two simultaneous
\* joins of one family by one user included, no family holds two member
\* entries with the same userId and no user holds two families entries with
\* the same familyId.
C27_NoDuplicateEntries ==
    /\ \A f \in Families : \A i, j \in DOMAIN family[f].members :
          family[f].members[i].userId = family[f].members[j].userId => i = j
    /\ \A u \in Users : \A i, j \in DOMAIN user[u].families :
          user[u].families[i].familyId = user[u].families[j].familyId => i = j

\* C28: when a family has exactly two admins and other members, two
\* concurrent requests in which each admin leaves, or each removes or demotes
\* the other, cannot both succeed; under every interleaving the family keeps
\* at least one admin.
C28_AdminFloorUnderRace ==
    \A f \in Families :
        (family[f].exists /\ family[f].members # <<>>)
        => \E i \in DOMAIN family[f].members : family[f].members[i].role = "admin"

\* ------------------------------------------------- claims: compensation
\* No request is between two of its store calls.
Quiet == \A r \in Reqs : inflight.req[r].pc = "idle"

\* C29: if the User-side write of a join, leave, member removal or role
\* update fails after the Family-side write succeeded, the Family-side change
\* is undone: after the failed request both aggregates reflect the mutation
\* or neither does.
C29_BothSidesOrNeither ==
    (Quiet /\ last.status = "500")
    => \A u \in Users, f \in Families, r \in Roles :
          ([familyId |-> f, role |-> r] \in Range(user[u].families))
          <=> (family[f].exists /\ [userId |-> u, role |-> r] \in Range(family[f].members))

\* ------------------------------------------------- claims: recipients are members
\* C30: every recipient of a place_alert for a place of family F is, at the
\* time of the alert, a member of F; a user listed in membersToNotify who
\* has left or been removed from F receives no alert about F's members.
C30_RecipientsAreMembers ==
    IngestedOnSocket =>
        LET loc == samples[Len(samples)] IN
        \A e \in emitted :
            e.event = "place_alert"
            => \E fk \in AlertingPlaces(loc.userId, loc) :
                  /\ conn[e.to].user \in SelectedRecipients(fk, loc.userId)
                  /\ \E i \in DOMAIN family[fk[1]].members :
                        family[fk[1]].members[i].userId = conn[e.to].user

\* ------------------------------------------------- claims: what the socket path accepts
\* C31: the socket location_update handler accepts every sample whose
\* coordinates are present and in range, latitude or longitude 0 included:
\* the sample is persisted and acknowledged, as on the REST path.
C31_ZeroCoordinatesAccepted ==
    [][\A c \in Conns, coords \in CoordInputs :
          (SocketLocationUpdate(c, coords, TsOld) /\ ~BadCoordinates(coords))
          => /\ Len(samples') = Len(samples) + 1
             /\ last'.status = "success"]_vars

\* C32: a sample submitted with an absent or unparseable timestamp is
\* accepted and persisted with the ingestion time as its timestamp, on the
\* REST and on the socket ingestion path.
C32_TimestampNormalised ==
    [][\A coords \in CoordInputs, ts \in {TsAbsent, TsUnparseable} :
          (~BadCoordinates(coords) /\ coords.lat # 0 /\ coords.lon # 0)
          => /\ \A u \in Users :
                   (RestLocationUpdate(u, coords, ts) /\ user[u].shareLocation)
                   => /\ Len(samples') = Len(samples) + 1
                      /\ samples'[Len(samples')].ts = Now
             /\ \A c \in Conns :
                   SocketLocationUpdate(c, coords, ts)
                   => /\ Len(samples') = Len(samples) + 1
                      /\ samples'[Len(samples')].ts = Now]_vars

\* ------------------------------------------------- claims: ordering on a connection
\* How far the handler of an event has got: 0 received, 1 persisted,
\* 2 broadcast and confirmed.
Progress(e) == CASE e.pc = "saving" -> 0 [] e.pc = "saved" -> 1 [] OTHER -> 2

\* C33: two events sent on the same connection are handled in arrival
\* order: for two location_update events the persistence and the
\* member_location_update broadcast of the first precede those of the second.
C33_ArrivalOrder ==
    \A a, b \in Reqs :
        (/\ inflight.event[a].pc # "idle" /\ inflight.event[b].pc # "idle"
         /\ inflight.event[a].conn = inflight.event[b].conn
         /\ inflight.event[a].seq < inflight.event[b].seq)
        => Progress(inflight.event[b]) <= Progress(inflight.event[a])

\* ------------------------------------------------- claims: presence
\* C34: a user_offline status change for user U is broadcast only when U has
\* no remaining open connection, so the last status the family saw for U is
\* user_online exactly when U still has an open connection.
C34_OfflineOnlyWhenGone ==
    [][\A c \in Conns :
          (Disconnect(c) /\ \E d \in Conns \ {c} : conn[d].user = conn[c].user)
          => ~\E e \in emitted' :
                 /\ e.event = "user_status_change"
                 /\ e.type = "user_offline"
                 /\ e.about = conn[c].user]_vars

\* ------------------------------------------- client: token refresh queue
\* Everything of the server, untouched by the client's own steps.
ServerUnchanged == UNCHANGED <<user, family, conn, samples, emitted, last, perm, inflight>>

\* processQueue(error, token): every queued promise is settled and the queue
\* emptied.  A resolved call is sent again by its then-callback (with the
\* _retry flag it had), a rejected one fails; the queued POST /auth/refresh
\* settles the same way.
processQueue(requests, ok) ==
    [r \in Reqs |->
        IF requests[r].pc = "queued"
        THEN [requests[r] EXCEPT !.pc = IF ok THEN "sent" ELSE "rejected"]
        ELSE requests[r]]

\* The call that set isRefreshing and awaits refreshAuth().
Refresher(requests, r) == requests[r].pc = "refreshing"

\* login(): the answer to a successful POST /auth/login stores the tokens.
Login ==
    /\ ~client.refreshToken
    /\ client' = [client EXCEPT !.refreshToken = TRUE]
    /\ ServerUnchanged

\* apiService(config): a call leaves the client.
SendRequest(r) ==
    /\ client.request[r].pc = "idle"
    /\ client' = [client EXCEPT !.request[r].pc = "sent"]
    /\ ServerUnchanged

\* The response interceptor for the answer to call r.  A 401 without _retry
\* is queued while a refresh is in flight; otherwise the call sets _retry
\* and isRefreshing and runs refreshAuth(), which returns false at once
\* without a refresh token and else posts /auth/refresh.
Response(r, status) ==
    /\ client.request[r].pc = "sent"
    /\ IF status = "200"
       THEN client' = [client EXCEPT !.request[r].pc = "done"]
       ELSE IF status = "401" /\ ~client.request[r].retry
       THEN IF client.isRefreshing
            THEN client' = [client EXCEPT !.failedQueue = Append(@, r),
                                          !.request[r].pc = "queued"]
            ELSE IF ~client.refreshToken
            THEN client' = [client EXCEPT
                     !.request = [processQueue(client.request, FALSE) EXCEPT
                                     ![r] = [pc |-> "rejected", retry |-> TRUE]],
                     !.failedQueue = <<>>,
                     !.isRefreshing = FALSE]
            ELSE client' = [client EXCEPT
                     !.request[r] = [pc |-> "refreshing", retry |-> TRUE],
                     !.isRefreshing = TRUE,
                     !.refresh = "sent"]
       ELSE client' = [client EXCEPT !.request[r].pc = "rejected"]
    /\ ServerUnchanged

\* The answer to POST /auth/refresh, which went through the same apiService
\* and so through the same interceptor.  200: refreshAuth() returns true, the
\* queue is resolved, the refresher is sent again, isRefreshing is reset.
\* 401 (invalid or expired refresh token, inactive user): the interceptor
\* sees a 401 without _retry while isRefreshing is set and queues the refresh
\* call itself (isRefreshing is set for as long as the refresh call is out);
\* refreshAuth() keeps awaiting it.  Any other failure: the
\* tokens are cleared, refreshAuth() returns false, the queue is rejected.
RefreshResponse(status) ==
    /\ client.refresh = "sent"
    /\ IF status = "200"
       THEN client' = [client EXCEPT
                !.request = [r \in Reqs |->
                    IF Refresher(client.request, r)
                    THEN [pc |-> "sent", retry |-> TRUE]
                    ELSE processQueue(client.request, TRUE)[r]],
                !.failedQueue = <<>>,
                !.isRefreshing = FALSE,
                !.refresh = "none"]
       ELSE IF status = "401"
       THEN client' = [client EXCEPT !.failedQueue = Append(@, RefreshCall),
                                     !.refresh = "queued"]
       ELSE client' = [client EXCEPT
                !.request = [r \in Reqs |->
                    IF Refresher(client.request, r)
                    THEN [pc |-> "rejected", retry |-> TRUE]
                    ELSE processQueue(client.request, FALSE)[r]],
                !.failedQueue = <<>>,
                !.isRefreshing = FALSE,
                !.refreshToken = FALSE,
                !.refresh = "none"]
    /\ ServerUnchanged

HttpStatuses == {"200", "401", "500"}

NextRefresh ==
    \/ Login
    \/ \E r \in Reqs : SendRequest(r)
    \/ \E r \in Reqs, status \in HttpStatuses : Response(r, status)
    \/ \E status \in HttpStatuses : RefreshResponse(status)

\* Every call that was sent is answered, and so is the refresh call.
SpecRefresh ==
    /\ Init
    /\ [][NextRefresh]_vars
    /\ \A r \in Reqs : WF_vars(\E status \in HttpStatuses : Response(r, status))
    /\ WF_vars(\E status \in HttpStatuses : RefreshResponse(status))

\* ------------------------------------------------ client: location store
\* navigator.geolocation.watchPosition registers a new watch under a fresh
\* id; startTracking stores the id and sets isTrackingEnabled. The id held
\* before is overwritten, its watch is not cleared.
Started(cl) ==
    [cl EXCEPT !.issued = @ + 1,
               !.watches = @ \cup {cl.issued + 1},
               !.watchId = cl.issued + 1,
               !.isTrackingEnabled = TRUE]

\* stopTracking and cleanup: clearWatch for a held id, then watchId null.
Stopped(cl) ==
    [cl EXCEPT !.watches = IF cl.watchId # 0 THEN @ \ {cl.watchId} ELSE @,
               !.watchId = 0,
               !.isTrackingEnabled = FALSE]

startTracking ==
    /\ client.issued < MaxWatches
    /\ client' = Started(client)
    /\ ServerUnchanged

stopTracking ==
    /\ client' = Stopped(client)
    /\ ServerUnchanged

\* The error callback of a registered watch: the flag is cleared, the watch
\* and watchId stay.
handleGeolocationError ==
    /\ client.watches # {}
    /\ client' = [client EXCEPT !.isTrackingEnabled = FALSE]
    /\ ServerUnchanged

\* updateLocationSettings of the client of user u: PUT /user/settings/location,
\* then, when the request succeeded and settings.shareLocation is given,
\* startTracking() or stopTracking(). A failed request changes nothing.
updateLocationSettings(u, share, ok) ==
    /\ Authenticated(u)
    /\ (Given(share, FALSE) /\ ok) => client.issued < MaxWatches
    /\ IF ok
       THEN /\ user' = [user EXCEPT ![u].shareLocation = Given(share, @)]
            /\ Respond("settingsLocation", u, NoFamily, NoUser, "200")
            /\ client' = IF share = Undefined THEN client
                         ELSE IF ValueOf(share) THEN Started(client)
                         ELSE Stopped(client)
       ELSE UNCHANGED <<user, last, emitted, client>>
    /\ UNCHANGED <<family, conn, samples, perm, inflight>>

cleanup ==
    /\ client' = [Stopped(client) EXCEPT !.familyLocations = <<>>]
    /\ ServerUnchanged

\* Mutant of handleMemberLocationUpdate: the update is appended whether or
\* not the user has an entry.
handleMemberLocationUpdate_AlwaysPush(data) ==
    /\ client.received < MaxUpdates
    /\ data.timestamp = client.received + 1
    /\ client' = [client EXCEPT !.familyLocations = Append(@, data),
                                !.received = @ + 1]
    /\ ServerUnchanged

\* handleMemberLocationUpdate(data): every entry of data.userId is replaced
\* by data; data is pushed when no entry of the mapped list has its userId.
\* The payload carries the time of the update, here its number in the order
\* of reception.
handleMemberLocationUpdate(data) ==
    /\ client.received < MaxUpdates
    /\ data.timestamp = client.received + 1
    /\ LET updated == [i \in DOMAIN client.familyLocations |->
                          IF client.familyLocations[i].userId = data.userId
                          THEN data ELSE client.familyLocations[i]]
       IN  client' = [client EXCEPT
                         !.familyLocations =
                             IF \E i \in DOMAIN updated : updated[i].userId = data.userId
                             THEN updated ELSE Append(updated, data),
                         !.received = @ + 1]
    /\ ServerUnchanged

MemberUpdates == [userId : Users, timestamp : 1..MaxUpdates]

NextClient ==
    \/ startTracking
    \/ stopTracking
    \/ handleGeolocationError
    \/ \E u \in Users, share \in Optional(BOOLEAN), ok \in BOOLEAN :
          updateLocationSettings(u, share, ok)
    \/ cleanup
    \/ \E data \in MemberUpdates : handleMemberLocationUpdate(data)

SpecClient == Init /\ [][NextClient]_vars

\* C35: a refresh in flight always finishes with isRefreshing false and
\* failedQueue empty, and every call queued behind it is by then sent again
\* or rejected, whatever the answer to the refresh call is.
C35_RefreshQueueProgress ==
    /\ client.isRefreshing ~> (~client.isRefreshing /\ client.failedQueue = <<>>)
    /\ \A r \in Reqs :
          (client.request[r].pc = "queued")
              ~> (client.request[r].pc \in {"sent", "done", "rejected"})

\* C36: when the emit of one place_alert throws, the sockets of every member
\* that another emit of the same sample addresses still receive a
\* place_alert.
C36_FanoutIsolated ==
    [][\A c \in Conns, f \in Families, k \in 1..MaxPlaces, m \in Users :
          LET failing == [family |-> f, place |-> k, to |-> m]
              loc == NewSample(conn[c].user, Point(10, 20), TsOld)
          IN  SocketLocationUpdateAlertFault(c, Point(10, 20), failing)
              => \A s \in AlertSteps(loc, conn[c].user) \ {failing} :
                    \A d \in Conns :
                       conn[d].user = s.to
                       => \E e \in emitted' : e.event = "place_alert" /\ e.to = d]_vars

\* C37: addMember for a member fails with AlreadyMember, removeMember and
\* updateMemberRole for a non-member fail with NotAMember, and the family is
\* left as it was.
C37_NoSilentNoOp ==
    [][\A f \in Families, m \in Users :
          /\ (AddMemberCall(f, m) /\ isUserMember(family[f], m))
                => (last'.status = "AlreadyMember" /\ family' = family)
          /\ (RemoveMemberCall(f, m) /\ ~isUserMember(family[f], m))
                => (last'.status = "NotAMember" /\ family' = family)
          /\ \A newRole \in Roles :
                (UpdateMemberRoleCall(f, m, newRole) /\ ~isUserMember(family[f], m))
                   => (last'.status = "NotAMember" /\ family' = family)]_vars

\* C38: the answer to join_family or get_family_locations for an existing
\* family the user is not a member of differs from the answer for a family
\* that does not exist: such a join_family step is not also a join_family
\* step for a missing family, and such a get_family_locations answer has
\* another status than the preceding answer about a missing family.
C38_DenialDistinct ==
    [][\A c \in Conns, f \in Families :
          (family[f].exists /\ ~isUserMember(family[f], conn[c].user))
          => /\ JoinFamilyRoom(c, f)
                   => ~\E g \in Families : ~family[g].exists /\ JoinFamilyRoom(c, g)
             /\ (/\ GetFamilyLocations(c, f)
                 /\ last.op = "get_family_locations"
                 /\ ~family[last.fam].exists)
                   => last'.status # last.status]_vars

\* C39: at most one geolocation watch is registered, and isTrackingEnabled
\* is true exactly when a watch is registered whose id watchId holds.
C39_TrackingConsistent ==
    /\ Cardinality(client.watches) <= 1
    /\ client.isTrackingEnabled <=> (client.watchId # 0 /\ client.watches = {client.watchId})

UniqueUserIds(list) ==
    \A i, j \in DOMAIN list : list[i].userId = list[j].userId => i = j

\* C40: handleMemberLocationUpdate on a list with unique userIds leaves a
\* list with unique userIds in which the user's entry is the update just
\* received and the other entries are the ones there were, in their places.
C40_UpsertByUserId ==
    [][\A data \in MemberUpdates :
          (handleMemberLocationUpdate(data) /\ UniqueUserIds(client.familyLocations))
          => LET old == client.familyLocations
                 new == client'.familyLocations
             IN  /\ UniqueUserIds(new)
                 /\ \E i \in DOMAIN new : new[i] = data
                 /\ \A i \in DOMAIN old :
                       old[i].userId # data.userId => (i \in DOMAIN new /\ new[i] = old[i])
                 /\ \A i \in DOMAIN new : new[i] = data \/ (i \in DOMAIN old /\ new[i] = old[i])]_vars

\* The entry of user 1, first in the list, was replaced by a later update
\* after user 2's entry was added behind it.
C40_Replaced ==
    /\ Len(client.familyLocations) = 2
    /\ client.familyLocations[1] = [userId |-> 1, timestamp |-> 3]
    /\ client.familyLocations[2] = [userId |-> 2, timestamp |-> 2]

=============================================================================
